---- MODULE Spec2Model ----
(***************************************************************************)
(* A model of the ReX math layout engine: the box builders                 *)
(* (src/src/layout/builders.rs), the node conversions                      *)
(* (src/src/layout/convert.rs) and the recursive layout algorithm          *)
(* (src/src/layout/engine.rs).                                             *)
(*                                                                         *)
(* Lengths.  The program computes with f64 lengths.  The model computes    *)
(* with integers: a Length<Font> is a whole number of font units and a     *)
(* Length<Px> is a whole number of 1/(100 * Subdiv) of the pixel size of   *)
(* one font unit, so that the style scale factors (percentages) and the    *)
(* halvings the engine performs (0.5 * x, x / 2.0) are exact.  Rounding    *)
(* of the floating-point arithmetic is outside the model.                  *)
(***************************************************************************)
EXTENDS Integers, Sequences, FiniteSets, TLC

VARIABLES
    box,             \* the builder under construction (builders::HBox / VBox), or NoBox
    built,           \* the LayoutNode returned by the last build(), or NoNode
    hist,            \* history of the builder: the set_width call that last overwrote
                     \* the width, and the child handed over last; for a Grid the
                     \* inserts made and the offsets handed to the renderer
    formula,         \* the ParseNode sequence handed to the layout engine
    settings,        \* the style of the LayoutSettings the engine is entered with
    cur_parent_next, \* layout_recurse: its parent_next argument
    pc,              \* position of the engine: "idle", "loop", "call" or "done"
    cur_idx,         \* layout_recurse: idx, the loop index (0-based)
    cur_prev,        \* layout_recurse: prev, the previous atom type
    cur_config,      \* layout_recurse: config, its own copy of the settings (the style)
    cur_result,      \* layout_recurse: result, the Layout under construction
    lines            \* layout_recurse: the (prev, current, spacing) lines it prints

bvars == <<box, built, hist>>
evars == <<formula, settings, cur_parent_next, pc, cur_idx, cur_prev, cur_config,
           cur_result, lines>>
vars  == <<box, built, hist, formula, settings, cur_parent_next, pc, cur_idx, cur_prev,
           cur_config, cur_result, lines>>

(***************************************************************************)
(* Bounds of the model.                                                    *)
(***************************************************************************)
MaxChildren == 3

(***************************************************************************)
(* Arithmetic helpers (std::cmp::max / min, f64::max / min).               *)
(***************************************************************************)
max(a, b) == IF a >= b THEN a ELSE b
min(a, b) == IF a <= b THEN a ELSE b

(***************************************************************************)
(* LayoutNode: width, height, depth and the variant.  Children stored in   *)
(* a box keep their kind and dimensions.                                   *)
(***************************************************************************)
Node(k, w, h, d) == [kind |-> k, width |-> w, height |-> h, depth |-> d]

NoNode == [kind |-> "None"]
NoBox  == [type |-> "None"]

\* builders.rs kern!(vert: h) and kern!(horz: w)
kern_vert(h) == Node("Kern", 0, h, 0)
kern_horz(w) == Node("Kern", w, 0, 0)

\* builders.rs rule!(width, height, depth)
rule(w, h, d) == Node("Rule", w, h, d)

RECURSIVE SumWidth(_)
SumWidth(s) == IF s = <<>> THEN 0 ELSE Head(s).width + SumWidth(Tail(s))

RECURSIVE SumHeight(_)
SumHeight(s) == IF s = <<>> THEN 0 ELSE Head(s).height + SumHeight(Tail(s))

RECURSIVE MaxHeight(_)
MaxHeight(s) ==
    IF Len(s) = 1 THEN s[1].height ELSE max(Head(s).height, MaxHeight(Tail(s)))

RECURSIVE MinDepth(_)
MinDepth(s) ==
    IF Len(s) = 1 THEN s[1].depth ELSE min(Head(s).depth, MinDepth(Tail(s)))

\* Vec::insert(idx, x): x ends up at 0-based position idx
VecInsert(s, idx, x) == SubSeq(s, 1, idx) \o <<x>> \o SubSeq(s, idx + 1, Len(s))

(***************************************************************************)
(* Alignment of a horizontal box (layout::Alignment).                      *)
(***************************************************************************)
Default     == [tag |-> "Default", of |-> 0]
Centered(w) == [tag |-> "Centered", of |-> w]

(***************************************************************************)
(* builders::VBox                                                          *)
(***************************************************************************)
VBox_new ==
    [type |-> "VBox", width |-> 0, height |-> 0, depth |-> 0,
     contents |-> <<>>, offset |-> 0, alignment |-> Default]

VBox_insert_node(b, idx, node) ==
    [b EXCEPT !.width    = max(@, node.width),
              !.height   = @ + node.height,
              !.contents = VecInsert(@, idx, node)]

\* a slip: the height is decreased by the child's height
VBox_add_node_sub(b, node) ==
    [b EXCEPT !.width    = max(@, node.width),
              !.height   = @ - node.height,
              !.contents = Append(@, node)]

VBox_add_node(b, node) ==
    [b EXCEPT !.width    = max(@, node.width),
              !.height   = @ + node.height,
              !.contents = Append(@, node)]

VBox_set_offset(b, offset) == [b EXCEPT !.offset = offset]

\* a slip: the depth is taken from the first child instead of the last
VBox_build_first(b) ==
    LET depth == IF b.contents # <<>> THEN Head(b.contents).depth ELSE b.depth
    IN  [kind |-> "VerticalBox", width |-> b.width,
         height |-> b.height - b.offset, depth |-> depth - b.offset,
         contents |-> b.contents, offset |-> b.offset, alignment |-> b.alignment]

VBox_build(b) ==
    LET depth == IF b.contents # <<>>
                 THEN b.contents[Len(b.contents)].depth
                 ELSE b.depth
    IN  [kind |-> "VerticalBox", width |-> b.width,
         height |-> b.height - b.offset, depth |-> depth - b.offset,
         contents |-> b.contents, offset |-> b.offset, alignment |-> b.alignment]

(***************************************************************************)
(* builders::HBox                                                          *)
(***************************************************************************)
HBox_new ==
    [type |-> "HBox", width |-> 0, height |-> 0, depth |-> 0,
     contents |-> <<>>, offset |-> 0, alignment |-> Default]

\* a slip: the width is the widest child instead of the sum
HBox_add_node_maxwidth(b, node) ==
    [b EXCEPT !.width    = max(@, node.width),
              !.height   = max(@, node.height),
              !.depth    = min(@, node.depth),
              !.contents = Append(@, node)]

\* a slip: the height and depth are those of the child added last
HBox_add_node_lastdims(b, node) ==
    [b EXCEPT !.width    = @ + node.width,
              !.height   = node.height,
              !.depth    = node.depth,
              !.contents = Append(@, node)]

HBox_add_node(b, node) ==
    [b EXCEPT !.width    = @ + node.width,
              !.height   = max(@, node.height),
              !.depth    = min(@, node.depth),
              !.contents = Append(@, node)]

HBox_set_offset(b, offset) == [b EXCEPT !.offset = offset]

HBox_set_alignment(b, align) == [b EXCEPT !.alignment = align]

HBox_set_width(b, width) == [b EXCEPT !.width = width]

\* a slip: the offset is subtracted from the height only
HBox_build_depth_kept(b) ==
    [kind |-> "HorizontalBox", width |-> b.width,
     height |-> b.height - b.offset, depth |-> b.depth,
     contents |-> b.contents, offset |-> b.offset, alignment |-> b.alignment]

HBox_build(b) ==
    [kind |-> "HorizontalBox", width |-> b.width,
     height |-> b.height - b.offset, depth |-> b.depth - b.offset,
     contents |-> b.contents, offset |-> b.offset, alignment |-> b.alignment]

(***************************************************************************)
(* The builders as a state machine: a builder is created, receives calls   *)
(* and is consumed by build().  The children handed to it are layout       *)
(* nodes of the kinds the engine makes: a glyph, a negative horizontal     *)
(* kern (convert.rs:77), a negative vertical kern (engine.rs:214-221) and  *)
(* a rule.                                                                 *)
(***************************************************************************)
Leaves  == { Node("Glyph", 2, 3, -1), kern_horz(-1), kern_vert(-2), rule(3, 1, 0) }
Offsets == { 0, 2, -2 }
Widths  == { 0, 4 }
Aligns  == { Default, Centered(1) }

NoHist == [setAt |-> -1, setTo |-> 0, last |-> NoNode]

BuildersIdle ==
    /\ box = NoBox
    /\ built = NoNode
    /\ hist = NoHist

EngineIdle ==
    /\ formula = <<>>
    /\ settings = "Text"
    /\ cur_parent_next = "Transparent"
    /\ pc = "idle"
    /\ cur_idx = 0
    /\ cur_prev = "Transparent"
    /\ cur_config = "Text"
    /\ cur_result = NoNode
    /\ lines = <<>>

Init ==
    /\ BuildersIdle
    /\ EngineIdle

New ==
    /\ box = NoBox
    /\ box' \in { HBox_new, VBox_new }
    /\ built' = NoNode
    /\ hist' = NoHist
    /\ UNCHANGED evars

HBoxAddNode ==
    /\ box.type = "HBox"
    /\ Len(box.contents) < MaxChildren
    /\ \E node \in Leaves :
          /\ box' = HBox_add_node(box, node)
          /\ hist' = [hist EXCEPT !.last = node]
    /\ UNCHANGED built
    /\ UNCHANGED evars

HBoxSetOffset ==
    /\ box.type = "HBox"
    /\ \E o \in Offsets : box' = HBox_set_offset(box, o)
    /\ UNCHANGED <<built, hist>>
    /\ UNCHANGED evars

HBoxSetAlignment ==
    /\ box.type = "HBox"
    /\ \E a \in Aligns : box' = HBox_set_alignment(box, a)
    /\ UNCHANGED <<built, hist>>
    /\ UNCHANGED evars

HBoxSetWidth ==
    /\ box.type = "HBox"
    /\ \E w \in Widths :
          /\ box' = HBox_set_width(box, w)
          /\ hist' = [hist EXCEPT !.setAt = Len(box.contents), !.setTo = w]
    /\ UNCHANGED built
    /\ UNCHANGED evars

HBoxBuild ==
    /\ box.type = "HBox"
    /\ built' = HBox_build(box)
    /\ box' = NoBox
    /\ UNCHANGED hist
    /\ UNCHANGED evars

VBoxAddNode ==
    /\ box.type = "VBox"
    /\ Len(box.contents) < MaxChildren
    /\ \E node \in Leaves :
          /\ box' = VBox_add_node(box, node)
          /\ hist' = [hist EXCEPT !.last = node]
    /\ UNCHANGED built
    /\ UNCHANGED evars

\* Vec::insert panics when idx > len
VBoxInsertNode ==
    /\ box.type = "VBox"
    /\ Len(box.contents) < MaxChildren
    /\ \E node \in Leaves, idx \in 0 .. Len(box.contents) :
          /\ box' = VBox_insert_node(box, idx, node)
          /\ hist' = [hist EXCEPT !.last = node]
    /\ UNCHANGED built
    /\ UNCHANGED evars

VBoxSetOffset ==
    /\ box.type = "VBox"
    /\ \E o \in Offsets : box' = VBox_set_offset(box, o)
    /\ UNCHANGED <<built, hist>>
    /\ UNCHANGED evars

VBoxBuild ==
    /\ box.type = "VBox"
    /\ built' = VBox_build(box)
    /\ box' = NoBox
    /\ UNCHANGED hist
    /\ UNCHANGED evars

Next ==
    \/ New
    \/ HBoxAddNode
    \/ HBoxSetOffset
    \/ HBoxSetAlignment
    \/ HBoxSetWidth
    \/ HBoxBuild
    \/ VBoxAddNode
    \/ VBoxInsertNode
    \/ VBoxSetOffset
    \/ VBoxBuild

Spec == Init /\ [][Next]_vars

(***************************************************************************)
(* Properties of the builders, checked under Spec.                         *)
(***************************************************************************)
IsHBoxBuilt == built.kind = "HorizontalBox"
IsVBoxBuilt == built.kind = "VerticalBox"

NonNeg(n) == n.width >= 0 /\ n.height >= 0 /\ n.depth <= 0

AllNonNeg(s) == \A i \in 1 .. Len(s) : NonNeg(s[i])

\* C1, as stated: whatever builder calls precede build, the width of a built
\* horizontal box is the sum of the widths of its children.
C1_WidthIsSumWhateverCalls ==
    IsHBoxBuilt => built.width = SumWidth(built.contents)

\* C1, amended: the width of a built horizontal box is the sum of the widths of
\* its children when set_width was never called; otherwise it is the argument of
\* the last set_width call plus the widths of the children added after that call.
C1_WidthIsSumSinceSetWidth ==
    IsHBoxBuilt =>
        built.width =
            IF hist.setAt = -1
            THEN SumWidth(built.contents)
            ELSE hist.setTo
                 + SumWidth(SubSeq(built.contents, hist.setAt + 1, Len(built.contents)))

\* C1, witness: a built horizontal box on which set_width was called between two
\* add_node calls.
C1_Witness ==
    /\ IsHBoxBuilt
    /\ hist.setAt >= 1
    /\ Len(built.contents) > hist.setAt
    /\ built.width # SumWidth(built.contents)

\* C2, as stated: a non-empty horizontal box built with offset 0 has the maximum
\* of its children's heights as height and the minimum of their depths as depth.
C2_HeightDepthAreChildExtremes ==
    (IsHBoxBuilt /\ built.offset = 0 /\ built.contents # <<>>) =>
        /\ built.height = MaxHeight(built.contents)
        /\ built.depth  = MinDepth(built.contents)

\* C2, amended: a non-empty horizontal box built with offset 0 has height
\* max(0, heights of its children) and depth min(0, depths of its children): the
\* builder starts from height 0 and depth 0.
C2_HeightDepthAreExtremesWithZero ==
    (IsHBoxBuilt /\ built.offset = 0 /\ built.contents # <<>>) =>
        /\ built.height = max(0, MaxHeight(built.contents))
        /\ built.depth  = min(0, MinDepth(built.contents))

\* C2, witness: a horizontal box built with offset 0 from several children of
\* different heights, the tallest of them not the last.
C2_Witness ==
    /\ IsHBoxBuilt
    /\ built.offset = 0
    /\ Len(built.contents) >= 2
    /\ built.height > built.contents[Len(built.contents)].height
    /\ built.depth < built.contents[Len(built.contents)].depth

\* C3: a vertical box built with offset 0 after any add_node and insert_node
\* calls has the sum of its children's heights as height and the depth of the
\* child that is last in its final child order as depth.
C3_VBoxHeightSumDepthLast ==
    (IsVBoxBuilt /\ built.offset = 0) =>
        /\ built.height = SumHeight(built.contents)
        /\ built.contents # <<>> =>
              built.depth = built.contents[Len(built.contents)].depth

\* C3, witness: a vertical box built with offset 0 whose most recently inserted
\* child is not its last child and has another depth.
C3_Witness ==
    /\ IsVBoxBuilt
    /\ built.offset = 0
    /\ Len(built.contents) >= 2
    /\ hist.last # built.contents[Len(built.contents)]
    /\ hist.last.depth # built.depth

\* C4, as stated: every layout node produced (here: every built box and every
\* child handed to it) has width >= 0, height >= 0 and depth <= 0.
C4_AllNodesNonNegative ==
    (IsHBoxBuilt \/ IsVBoxBuilt) =>
        /\ NonNeg(built)
        /\ AllNonNeg(built.contents)

\* C4, amended: a box built by the horizontal or the vertical builder has
\* width >= 0, height >= 0 and depth <= 0 whenever its baseline offset is 0, all
\* its children satisfy these bounds and no set_width call gave it a negative
\* width.
C4_BoxNonNegativeFromNonNegative ==
    ( /\ IsHBoxBuilt \/ IsVBoxBuilt
      /\ built.offset = 0
      /\ AllNonNeg(built.contents)
      /\ hist.setTo >= 0 ) => NonNeg(built)

\* C4, witness: a box built with offset 0 from two or more children that satisfy
\* the bounds.
C4_Witness ==
    /\ IsHBoxBuilt \/ IsVBoxBuilt
    /\ built.offset = 0
    /\ Len(built.contents) >= 2
    /\ AllNonNeg(built.contents)
    /\ built.height > 0

\* the node build() returns for the builder b once its offset is put back to 0
BuiltWithOffsetZero(b) ==
    IF b.type = "HBox" THEN HBox_build(HBox_set_offset(b, 0))
                       ELSE VBox_build(VBox_set_offset(b, 0))

\* C12: building a vertical or a horizontal box whose baseline offset is o gives
\* a node whose height and depth are each exactly o smaller than those of the
\* node built from the same builder with offset 0, and whose width is the same.
C12_OffsetLowersHeightAndDepth ==
    [][ (box # NoBox /\ box.type \in {"HBox", "VBox"} /\ box' = NoBox) =>
            /\ built'.height = BuiltWithOffsetZero(box).height - box.offset
            /\ built'.depth  = BuiltWithOffsetZero(box).depth - box.offset
            /\ built'.width  = BuiltWithOffsetZero(box).width ]_vars

\* C12, witness: a box built with a non-zero offset from two or more children,
\* its height and depth lowered by that offset.
C12_Witness ==
    /\ IsHBoxBuilt \/ IsVBoxBuilt
    /\ built.offset # 0
    /\ Len(built.contents) >= 2
    /\ IsHBoxBuilt => built.height = max(0, MaxHeight(built.contents)) - built.offset
    /\ IsVBoxBuilt => built.height = SumHeight(built.contents) - built.offset
    /\ built.depth # built.contents[Len(built.contents)].depth

(***************************************************************************)
(* builders::Grid (builders.rs:142-191): cells keyed by (row, column), a   *)
(* (height, depth) pair per row and a width per column.                    *)
(***************************************************************************)
MaxInserts == 3

RECURSIVE SumSeq(_)
SumSeq(s) == IF s = <<>> THEN 0 ELSE Head(s) + SumSeq(Tail(s))

\* Vec::resize(n, value) when n > len: value is appended until the length is n
VecResize(s, n, value) == s \o [i \in 1 .. (n - Len(s)) |-> value]

Grid_new == [type |-> "Grid", contents |-> {}, rows |-> <<>>, columns |-> <<>>]

\* builders.rs:151-159: the (height, depth) pair of the row after the insert
Grid_row_grown(rows, row, node) ==
    [rows EXCEPT ![row + 1] =
        << IF node.height > @[1] THEN node.height ELSE @[1],
           IF node.depth < @[2] THEN node.depth ELSE @[2] >>]

\* builders.rs:160-165: the width of the column after the insert
Grid_column_grown(columns, column, node) ==
    [columns EXCEPT ![column + 1] = IF node.width > @ THEN node.width ELSE @]

\* a slip: the row keeps the height and depth of the node inserted last
Grid_insert_last(g, row, column, node) ==
    [type     |-> "Grid",
     contents |-> { c \in g.contents : ~(c.row = row /\ c.column = column) }
                  \cup { [row |-> row, column |-> column, node |-> node] },
     rows     |-> [(IF row >= Len(g.rows)
                    THEN VecResize(g.rows, row + 1, << 0, 0 >>)
                    ELSE g.rows) EXCEPT ![row + 1] = << node.height, node.depth >>],
     columns  |-> Grid_column_grown(
                      IF column >= Len(g.columns)
                      THEN VecResize(g.columns, column + 1, 0)
                      ELSE g.columns,
                      column, node)]

\* Grid::insert (builders.rs:150-168); BTreeMap::insert replaces the node of
\* a cell that is already filled
Grid_insert(g, row, column, node) ==
    [type     |-> "Grid",
     contents |-> { c \in g.contents : ~(c.row = row /\ c.column = column) }
                  \cup { [row |-> row, column |-> column, node |-> node] },
     rows     |-> Grid_row_grown(
                      IF row >= Len(g.rows)
                      THEN VecResize(g.rows, row + 1, << 0, 0 >>)
                      ELSE g.rows,
                      row, node),
     columns  |-> Grid_column_grown(
                      IF column >= Len(g.columns)
                      THEN VecResize(g.columns, column + 1, 0)
                      ELSE g.columns,
                      column, node)]

\* the extent height - depth of every row
RowExtents(rows) == [i \in 1 .. Len(rows) |-> rows[i][1] - rows[i][2]]

\* Grid::build (builders.rs:169-176)
Grid_build(g) ==
    [kind |-> "Grid", width |-> SumSeq(g.columns),
     height |-> SumSeq(RowExtents(g.rows)), depth |-> 0, grid |-> g]

\* Iterator::scan with an accumulator that starts at zero: entry i is the sum
\* of the entries before i
Scan(s) ==
    LET RECURSIVE From(_, _)
        From(acc, rest) ==
            IF rest = <<>>
            THEN <<>>
            ELSE << acc >> \o From(acc + Head(rest), Tail(rest))
    IN  From(0, s)

\* a slip: the accumulator is read after the addition
Grid_x_offsets_after(g) == [i \in 1 .. Len(g.columns) |-> SumSeq(SubSeq(g.columns, 1, i))]

\* Grid::x_offsets (builders.rs:177-183)
Grid_x_offsets(g) == Scan(g.columns)

\* Grid::y_offsets (builders.rs:184-190)
Grid_y_offsets(g) == Scan(RowExtents(g.rows))

(***************************************************************************)
(* The grid builder as a state machine: cells are inserted into rows 0 and *)
(* 2 and columns 0 and 1 in any order (row 1 is never filled), the grid is *)
(* built, and the renderer asks the built grid for its offsets             *)
(* (render/mod.rs:171-172).  hist holds the inserts made so far and the    *)
(* offsets the renderer was given.                                         *)
(***************************************************************************)
GridRows    == { 0, 2 }
GridColumns == { 0, 1 }
GridCells   == { Node("Glyph", 2, 3, -1), kern_horz(-1), rule(3, 1, 0) }

NoOffsets == << -1 >>

InitGrid ==
    /\ box = Grid_new
    /\ built = NoNode
    /\ hist = [inserted |-> <<>>, x_offsets |-> NoOffsets, y_offsets |-> NoOffsets]
    /\ EngineIdle

GridInsert ==
    /\ box.type = "Grid"
    /\ Len(hist.inserted) < MaxInserts
    /\ \E row \in GridRows, column \in GridColumns, node \in GridCells :
          /\ box' = Grid_insert(box, row, column, node)
          /\ hist' = [hist EXCEPT !.inserted =
                         Append(@, [row |-> row, column |-> column, node |-> node])]
    /\ UNCHANGED built
    /\ UNCHANGED evars

GridBuild ==
    /\ box.type = "Grid"
    /\ built' = Grid_build(box)
    /\ box' = NoBox
    /\ UNCHANGED hist
    /\ UNCHANGED evars

\* render_grid (render/mod.rs:170-172)
GridOffsets ==
    /\ built.kind = "Grid"
    /\ hist' = [hist EXCEPT !.x_offsets = Grid_x_offsets(built.grid),
                            !.y_offsets = Grid_y_offsets(built.grid)]
    /\ UNCHANGED <<box, built>>
    /\ UNCHANGED evars

NextGrid ==
    \/ GridInsert
    \/ GridBuild
    \/ GridOffsets

SpecGrid == InitGrid /\ [][NextGrid]_vars

(***************************************************************************)
(* Properties of the grid builder, checked under SpecGrid.                 *)
(***************************************************************************)
\* the grid: the builder while it is filled, the grid of the built node after
CurGrid == IF box.type = "Grid" THEN box ELSE built.grid

MaxOf(S) == CHOOSE x \in S : \A y \in S : x >= y
MinOf(S) == CHOOSE x \in S : \A y \in S : x <= y

\* the nodes inserted so far into a row (0-based), into a column
InsertedInRow(r) ==
    { hist.inserted[i].node : i \in { j \in 1 .. Len(hist.inserted) :
                                        hist.inserted[j].row = r } }
InsertedInColumn(c) ==
    { hist.inserted[i].node : i \in { j \in 1 .. Len(hist.inserted) :
                                        hist.inserted[j].column = c } }

\* width and height of a built grid are the sums over its columns and rows
GridBuiltSums ==
    built.kind = "Grid" =>
        /\ built.width = SumSeq(built.grid.columns)
        /\ built.height = SumSeq([i \in 1 .. Len(built.grid.rows) |->
                                     built.grid.rows[i][1] - built.grid.rows[i][2]])

\* C11, as stated: every row that received nodes records the maximum of their
\* heights and the minimum of their depths, every column that received nodes
\* the maximum of their widths; the built width is the sum of the column
\* widths, the built height the sum over the rows of height - depth.
C11_RowsColumnsAreExtremes ==
    /\ \A r \in 0 .. Len(CurGrid.rows) - 1 :
          InsertedInRow(r) # {} =>
              /\ CurGrid.rows[r + 1][1] = MaxOf({ n.height : n \in InsertedInRow(r) })
              /\ CurGrid.rows[r + 1][2] = MinOf({ n.depth : n \in InsertedInRow(r) })
    /\ \A c \in 0 .. Len(CurGrid.columns) - 1 :
          InsertedInColumn(c) # {} =>
              CurGrid.columns[c + 1] = MaxOf({ n.width : n \in InsertedInColumn(c) })
    /\ GridBuiltSums

\* C11, amended: rows and columns start from zero, so a row records the
\* maximum of 0 and the heights and the minimum of 0 and the depths of the
\* nodes inserted into it (replaced ones included), a column the maximum of 0
\* and their widths; rows and columns that received nothing record zeros, and
\* there are as many rows (columns) as the largest row (column) index used
\* plus one.  The sums of the built grid are as stated.
C11_RowsColumnsAreExtremesWithZero ==
    /\ Len(CurGrid.rows) =
           MaxOf({ 0 } \cup { hist.inserted[i].row + 1 : i \in 1 .. Len(hist.inserted) })
    /\ Len(CurGrid.columns) =
           MaxOf({ 0 } \cup { hist.inserted[i].column + 1 : i \in 1 .. Len(hist.inserted) })
    /\ \A r \in 0 .. Len(CurGrid.rows) - 1 :
          /\ CurGrid.rows[r + 1][1] =
                 MaxOf({ 0 } \cup { n.height : n \in InsertedInRow(r) })
          /\ CurGrid.rows[r + 1][2] =
                 MinOf({ 0 } \cup { n.depth : n \in InsertedInRow(r) })
    /\ \A c \in 0 .. Len(CurGrid.columns) - 1 :
          CurGrid.columns[c + 1] =
              MaxOf({ 0 } \cup { n.width : n \in InsertedInColumn(c) })
    /\ GridBuiltSums

\* C11, witness: a built grid whose cell (2, 1) was filled with the glyph and
\* then again with the rule; row 2 keeps the height of the glyph, row 1 is a
\* gap, and column 0 received nothing
C11_Witness ==
    /\ built.kind = "Grid"
    /\ hist.inserted = << [row |-> 2, column |-> 1, node |-> Node("Glyph", 2, 3, -1)],
                          [row |-> 2, column |-> 1, node |-> rule(3, 1, 0)] >>
    /\ built.grid.contents = { [row |-> 2, column |-> 1, node |-> rule(3, 1, 0)] }
    /\ built.grid.rows = << << 0, 0 >>, << 0, 0 >>, << 3, -1 >> >>
    /\ built.grid.columns = << 0, 3 >>
    /\ built.width = 3
    /\ built.height = 4

OffsetsAsked == hist.x_offsets # NoOffsets

\* C18: the offsets the renderer gets from a built grid have one entry per
\* column and one per row; the entry of column c is the sum of the widths of
\* the columns before c and the entry of row r the sum of (height - depth) of
\* the rows before r, so both start at 0.
C18_OffsetsArePrefixSums ==
    (built.kind = "Grid" /\ OffsetsAsked) =>
        /\ Len(hist.x_offsets) = Len(built.grid.columns)
        /\ Len(hist.y_offsets) = Len(built.grid.rows)
        /\ \A c \in 1 .. Len(hist.x_offsets) :
              /\ c = 1 => hist.x_offsets[c] = 0
              /\ hist.x_offsets[c] = SumSeq(SubSeq(built.grid.columns, 1, c - 1))
        /\ \A r \in 1 .. Len(hist.y_offsets) :
              /\ r = 1 => hist.y_offsets[r] = 0
              /\ hist.y_offsets[r] =
                     SumSeq([k \in 1 .. r - 1 |->
                                built.grid.rows[k][1] - built.grid.rows[k][2]])

\* C18, witness: the offsets of a built grid of two columns and three rows, the
\* second column and the third row away from the origin.
C18_Witness ==
    /\ built.kind = "Grid"
    /\ OffsetsAsked
    /\ Len(hist.x_offsets) = 2
    /\ Len(hist.y_offsets) = 3
    /\ hist.x_offsets[2] > 0
    /\ hist.y_offsets[3] > 0

(***************************************************************************)
(*                        THE LAYOUT ENGINE                                *)
(***************************************************************************)

(***************************************************************************)
(* Atom types (parser::AtomType).  Operator(true) is an operator with      *)
(* limits, Operator(false) one without.                                    *)
(***************************************************************************)
AtomTypes ==
    { "Alpha", "Binary", "Relation", "Open", "Close", "Punctuation", "Inner",
      "Transparent", "Operator(true)", "Operator(false)" }

IsOperator(at) == at \in { "Operator(true)", "Operator(false)" }

(***************************************************************************)
(* The eight styles (layout::Style) and their transitions.  Styles are     *)
(* ordered by level, Display > Text > Script > ScriptScript, a cramped     *)
(* style comparing like its uncramped counterpart.                         *)
(***************************************************************************)
Styles ==
    { "Display", "DisplayCramped", "Text", "TextCramped",
      "Script", "ScriptCramped", "ScriptScript", "ScriptScriptCramped" }

Level(style) ==
    CASE style \in { "Display", "DisplayCramped" }           -> 3
      [] style \in { "Text", "TextCramped" }                 -> 2
      [] style \in { "Script", "ScriptCramped" }             -> 1
      [] style \in { "ScriptScript", "ScriptScriptCramped" } -> 0

is_cramped(style) ==
    style \in { "DisplayCramped", "TextCramped", "ScriptCramped", "ScriptScriptCramped" }

StyleOf(level, crampedp) ==
    CASE level = 3 -> IF crampedp THEN "DisplayCramped" ELSE "Display"
      [] level = 2 -> IF crampedp THEN "TextCramped" ELSE "Text"
      [] level = 1 -> IF crampedp THEN "ScriptCramped" ELSE "Script"
      [] level = 0 -> IF crampedp THEN "ScriptScriptCramped" ELSE "ScriptScript"

StyleGT(a, b) == Level(a) > Level(b)
StyleGE(a, b) == Level(a) >= Level(b)

\* a slip: cramping toggles between the cramped and the uncramped variant
cramped_toggle(style) == StyleOf(Level(style), ~ is_cramped(style))

cramped(style) == StyleOf(Level(style), TRUE)

superscript_variant(style) ==
    StyleOf(IF Level(style) >= 2 THEN 1 ELSE 0, is_cramped(style))

subscript_variant(style) ==
    StyleOf(IF Level(style) >= 2 THEN 1 ELSE 0, TRUE)

numerator(style) == StyleOf(max(Level(style) - 1, 0), is_cramped(style))

denominator(style) == StyleOf(max(Level(style) - 1, 0), TRUE)

(***************************************************************************)
(* The named constants of the font (font::constants), in font units, the   *)
(* two scale-down constants in percent.  The font is outside the engine;   *)
(* the model fixes one font with these values.                             *)
(***************************************************************************)
FontConst ==
    [SCRIPT_PERCENT_SCALE_DOWN                     |-> 70,
     SCRIPT_SCRIPT_PERCENT_SCALE_DOWN              |-> 50,
     UNITS_PER_EM                                  |-> 1000,
     AXIS_HEIGHT                                   |-> 250,
     ACCENT_BASE_HEIGHT                            |-> 450,
     SUBSCRIPT_SHIFT_DOWN                          |-> 250,
     SUBSCRIPT_TOP_MAX                             |-> 400,
     SUBSCRIPT_BASELINE_DROP_MIN                   |-> 50,
     SUPERSCRIPT_SHIFT_UP                          |-> 400,
     SUPERSCRIPT_SHIFT_UP_CRAMPED                  |-> 275,
     SUPERSCRIPT_BOTTOM_MIN                        |-> 125,
     SUPERSCRIPT_BASELINE_DROP_MAX                 |-> 375,
     SUB_SUPERSCRIPT_GAP_MIN                       |-> 264,
     UPPER_LIMIT_GAP_MIN                           |-> 150,
     UPPER_LIMIT_BASELINE_RISE_MIN                 |-> 300,
     LOWER_LIMIT_GAP_MIN                           |-> 150,
     LOWER_LIMIT_BASELINE_DROP_MIN                 |-> 670,
     FRACTION_NUMERATOR_SHIFT_UP                   |-> 480,
     FRACTION_NUMERATOR_DISPLAY_STYLE_SHIFT_UP     |-> 730,
     FRACTION_DENOMINATOR_SHIFT_DOWN               |-> 480,
     FRACTION_DENOMINATOR_DISPLAY_STYLE_SHIFT_DOWN |-> 690,
     FRACTION_NUMERATOR_GAP_MIN                    |-> 66,
     FRACTION_NUM_DISPLAY_STYLE_GAP_MIN            |-> 198,
     FRACTION_RULE_THICKNESS                       |-> 66,
     FRACTION_DENOMINATOR_GAP_MIN                  |-> 68,
     FRACTION_DENOM_DISPLAY_STYLE_GAP_MIN          |-> 200,
     RADICAL_VERTICAL_GAP                          |-> 82,
     RADICAL_DISPLAY_STYLE_VERTICAL_GAP            |-> 170,
     RADICAL_RULE_THICKNESS                        |-> 66,
     RADICAL_EXTRA_ASCENDER                        |-> 64,
     DISPLAY_OPERATOR_MIN_HEIGHT                   |-> 1800,
     NULL_DELIMITER_SPACE                          |-> 120,
     DELIMITED_SUB_FORMULA_MIN_HEIGHT              |-> 1000,
     DELIMITER_SHORT_FALL                          |-> 300,
     DELIMITER_FACTOR_PER_MILLE                    |-> 901]

(***************************************************************************)
(* Scaling (convert.rs:91-144).  scale_factor is a percentage; with        *)
(* font_size / units_per_em taken as the unit, a font unit is Subdiv       *)
(* length units at scale 1 before the percentage is applied.               *)
(***************************************************************************)
Subdiv == 4

\* a slip: ScriptCramped is listed with the styles of factor 1.0
scale_factor_cramped_full(style) ==
    CASE style \in { "Display", "DisplayCramped", "Text", "TextCramped",
                     "ScriptCramped" } -> 100
      [] style \in { "Script" } -> FontConst.SCRIPT_PERCENT_SCALE_DOWN
      [] style \in { "ScriptScript", "ScriptScriptCramped" } ->
            FontConst.SCRIPT_SCRIPT_PERCENT_SCALE_DOWN

scale_factor(style) ==
    CASE style \in { "Display", "DisplayCramped", "Text", "TextCramped" } -> 100
      [] style \in { "Script", "ScriptCramped" } ->
            FontConst.SCRIPT_PERCENT_SCALE_DOWN
      [] style \in { "ScriptScript", "ScriptScriptCramped" } ->
            FontConst.SCRIPT_SCRIPT_PERCENT_SCALE_DOWN

scale_font_unit(length) == length * Subdiv

\* Scaled for Length<Font> (and Unit::Font in engine.rs)
scaled(length, style) == scale_font_unit(length) * scale_factor(style)

\* a pixel length expressed in font units: value / font_size * units_per_em,
\* in hundredths of 1/Subdiv of a font unit (no rounding)
to_font(px) == px

\* a font-unit quantity in the unit of to_font
FontFine(length) == length * Subdiv * 100

\* 0.5 * x and x / 2.0 (every scaled length is a multiple of 10 * Subdiv)
Half(x) == x \div 2

(***************************************************************************)
(* The font-metrics provider: glyph metrics and glyph variants of the      *)
(* modelled font (font units).                                             *)
(***************************************************************************)
\* font::Glyph: the metrics of one glyph, in font units; height and depth are the
\* top and the bottom of its bounding box relative to the baseline
Glyph(gid, advance, height, depth, italics) ==
    [gid |-> gid, advance |-> advance, height |-> height, depth |-> depth,
     italics |-> italics, attachment |-> 0]

GlyphTable ==
    [g \in { "x", "f", "g", "dot", "plus", "eq", "lparen", "rparen", "comma",
             "sum", "sum_display", "int", "int_display",
             "sqrt", "sqrt_1", "sqrt_2", "part_bottom", "part_ext" } |->
        CASE g = "x"           -> Glyph(g, 500, 450, 0, 0)
          [] g = "f"           -> Glyph(g, 300, 700, -200, 80)
          [] g = "g"           -> Glyph(g, 500, 450, -250, 0)
          [] g = "dot"         -> Glyph(g, 250, 100, 0, 0)
          [] g = "plus"        -> Glyph(g, 600, 500, -50, 0)
          [] g = "eq"          -> Glyph(g, 600, 400, 100, 0)
          [] g = "lparen"      -> Glyph(g, 350, 750, -250, 0)
          [] g = "rparen"      -> Glyph(g, 350, 750, -250, 0)
          [] g = "comma"       -> Glyph(g, 250, 100, -150, 0)
          [] g = "sum"         -> Glyph(g, 900, 750, -250, 0)
          [] g = "sum_display" -> Glyph(g, 1300, 1300, -500, 0)
          [] g = "int"         -> Glyph(g, 500, 800, -300, 250)
          [] g = "int_display" -> Glyph(g, 700, 1450, -750, 400)
          [] g = "sqrt"        -> Glyph(g, 550, 800, -100, 0)
          [] g = "sqrt_1"      -> Glyph(g, 600, 1100, -300, 0)
          [] g = "sqrt_2"      -> Glyph(g, 650, 1500, -500, 0)
          [] g = "part_bottom" -> Glyph(g, 650, 600, 0, 0)
          [] g = "part_ext"    -> Glyph(g, 650, 500, 0, 0)]

\* font::glyph_metrics(unicode) / ctx.glyph_from_gid(gid)
glyph_metrics(unicode) == GlyphTable[unicode]

\* the replacement variants of a glyph, smallest first (the glyph itself included)
VariantTable(gid) ==
    CASE gid = "sum"  -> << "sum", "sum_display" >>
      [] gid = "int"  -> << "int", "int_display" >>
      [] gid = "sqrt" -> << "sqrt", "sqrt_1", "sqrt_2" >>
      [] OTHER        -> << gid >>

\* the overlap of each part of a constructed glyph after the first
PartOverlap == 100

\* the parts of a vertical construction whose parts cover at least size
RECURSIVE ConstructParts(_, _)
ConstructParts(parts, size) ==
    LET covered ==
            glyph_metrics("part_bottom").height
            + (Len(parts) - 1) * (glyph_metrics("part_ext").height - PartOverlap)
    IN  IF FontFine(covered) >= size
        THEN parts
        ELSE ConstructParts(
                 Append(parts, [gid |-> "part_ext", overlap |-> PartOverlap]), size)

\* Glyph::vert_variant(size): the smallest replacement whose total extent is
\* at least size, a construction when no replacement is tall enough
vert_variant(glyph, size) ==
    LET cands == VariantTable(glyph.gid)
        fits  == { i \in 1 .. Len(cands) :
                     FontFine(glyph_metrics(cands[i]).height
                              - glyph_metrics(cands[i]).depth) >= size }
    IN  IF fits # {}
        THEN [tag |-> "Replacement",
              gid |-> cands[CHOOSE i \in fits : \A j \in fits : i <= j]]
        ELSE [tag |-> "Constructable", dir |-> "Vertical",
              parts |-> ConstructParts(
                            << [gid |-> "part_bottom", overlap |-> 0] >>, size)]

(***************************************************************************)
(* Node conversions (convert.rs).                                          *)
(***************************************************************************)
\* a slip: the scale factor of the style is applied twice to the advance
Glyph_as_layout_twice(glyph, style) ==
    [kind   |-> "Glyph",
     width  |-> (scaled(glyph.advance, style) * scale_factor(style)) \div 100,
     height |-> scaled(glyph.height, style),
     depth  |-> scaled(glyph.depth, style),
     glyph  |-> [gid        |-> glyph.gid,
                 size       |-> scaled(FontConst.UNITS_PER_EM, style),
                 attachment |-> scaled(glyph.attachment, style),
                 italics    |-> scaled(glyph.italics, style),
                 offset     |-> 0]]

\* impl AsLayoutNode for Glyph
Glyph_as_layout(glyph, style) ==
    [kind   |-> "Glyph",
     width  |-> scaled(glyph.advance, style),
     height |-> scaled(glyph.height, style),
     depth  |-> scaled(glyph.depth, style),
     glyph  |-> [gid        |-> glyph.gid,
                 size       |-> scaled(FontConst.UNITS_PER_EM, style),
                 attachment |-> scaled(glyph.attachment, style),
                 italics    |-> scaled(glyph.italics, style),
                 offset     |-> 0]]

\* impl AsLayoutNode for Rule
Rule_as_layout(r, style) ==
    [kind |-> "Rule", width |-> scaled(r.width, style),
     height |-> scaled(r.height, style), depth |-> 0]

\* impl AsLayoutNode for VariantGlyph, Direction::Vertical: every part is
\* inserted at the front, its kern (when it overlaps) is appended at the back
RECURSIVE VerticalParts(_, _, _)
VerticalParts(contents, parts, style) ==
    IF parts = <<>>
    THEN contents
    ELSE LET instr  == Head(parts)
             glyph  == glyph_metrics(instr.gid)
             placed == VBox_insert_node(contents, 0, Glyph_as_layout(glyph, style))
             kerned ==
                 IF instr.overlap # 0
                 THEN VBox_add_node(placed,
                          kern_vert(-scaled(instr.overlap + glyph.depth, style)))
                 ELSE placed
         IN  VerticalParts(kerned, Tail(parts), style)

\* impl AsLayoutNode for VariantGlyph, Direction::Horizontal
RECURSIVE HorizontalParts(_, _, _)
HorizontalParts(contents, parts, style) ==
    IF parts = <<>>
    THEN contents
    ELSE LET instr  == Head(parts)
             glyph  == glyph_metrics(instr.gid)
             kerned ==
                 IF instr.overlap # 0
                 THEN HBox_add_node(contents, kern_horz(-scaled(instr.overlap, style)))
                 ELSE contents
         IN  HorizontalParts(HBox_add_node(kerned, Glyph_as_layout(glyph, style)),
                             Tail(parts), style)

VariantGlyph_as_layout(variant, style) ==
    IF variant.tag = "Replacement"
    THEN Glyph_as_layout(glyph_metrics(variant.gid), style)
    ELSE IF variant.dir = "Vertical"
         THEN VBox_build(VerticalParts(VBox_new, variant.parts, style))
         ELSE HBox_build(HorizontalParts(HBox_new, variant.parts, style))

(***************************************************************************)
(* Layout (layout::Layout): the accumulator of one nesting level, which    *)
(* measures its nodes as one horizontal box.                               *)
(***************************************************************************)
Layout_new ==
    [contents |-> <<>>, width |-> 0, height |-> 0, depth |-> 0,
     offset |-> 0, alignment |-> Default]

Layout_add_node(layout, node) ==
    [layout EXCEPT !.width    = @ + node.width,
                   !.height   = max(@, node.height),
                   !.depth    = min(@, node.depth),
                   !.contents = Append(@, node)]

Layout_finalize(layout) ==
    [layout EXCEPT !.depth  = @ - layout.offset,
                   !.height = @ - layout.offset]

Layout_as_node(layout) ==
    [kind |-> "HorizontalBox", width |-> layout.width,
     height |-> layout.height, depth |-> layout.depth,
     contents |-> layout.contents, offset |-> layout.offset,
     alignment |-> layout.alignment]

\* Layout::centered(width): the layout reports the new width and is centred
\* around its own width
Layout_centered(layout, new_width) ==
    [layout EXCEPT !.alignment = Centered(layout.width), !.width = new_width]

\* IsSymbol for LayoutNode (engine.rs:646-671): the glyph of a node that is a
\* glyph or wraps exactly one glyph, NoNode otherwise
RECURSIVE Node_is_symbol(_)
Node_is_symbol(node) ==
    CASE node.kind = "Glyph" -> node.glyph
      [] node.kind \in { "HorizontalBox", "VerticalBox" } ->
            IF Len(node.contents) # 1 THEN NoNode
            ELSE Node_is_symbol(node.contents[1])
      [] node.kind = "Color" ->
            IF Len(node.inner) # 1 THEN NoNode
            ELSE Node_is_symbol(node.inner[1])
      [] OTHER -> NoNode

\* IsSymbol for Layout (engine.rs:617-644)
Layout_is_symbol(layout) ==
    IF Len(layout.contents) # 1 THEN NoNode
    ELSE Node_is_symbol(layout.contents[1])

(***************************************************************************)
(* Parse nodes (parser::nodes::ParseNode).                                 *)
(***************************************************************************)
Symbol(unicode, at) == [kind |-> "Symbol", unicode |-> unicode, atom_type |-> at]
Scripts(base, sup, sub) ==
    [kind |-> "Scripts", base |-> base, superscript |-> sup, subscript |-> sub]
Radical(inner) == [kind |-> "Radical", inner |-> inner]
GenFraction(num, den, bar) ==
    [kind |-> "GenFraction", numerator |-> num, denominator |-> den,
     bar_thickness |-> bar]
\* parser::nodes::BarThickness
BarDefault    == [tag |-> "Default", unit |-> 0]
BarNone       == [tag |-> "None", unit |-> 0]
BarUnit(unit) == [tag |-> "Unit", unit |-> unit]
Group(inner) == [kind |-> "Group", inner |-> inner]
RuleNode(w, h) == [kind |-> "Rule", width |-> w, height |-> h]
Kerning(unit) == [kind |-> "Kerning", unit |-> unit]
StyleNode(style) == [kind |-> "Style", style |-> style]
Color(inner) == [kind |-> "Color", color |-> "red", inner |-> inner]
AtomChange(at, inner) == [kind |-> "AtomChange", at |-> at, inner |-> inner]
PlainText == [kind |-> "PlainText"]
\* parser::nodes::Delimited: the two delimiter symbols and the group between
Delimited(left, right, inner) ==
    [kind |-> "Delimited", left |-> left, right |-> right, inner |-> inner]
\* the code point 46, the period that stands for no delimiter
NullDelimiter == "period"

\* ParseNode::atom_type (nodes.rs:305-335)
RECURSIVE atom_type(_)
atom_type(node) ==
    CASE node.kind = "Symbol"      -> node.atom_type
      [] node.kind = "Delimited"   -> "Inner"
      [] node.kind = "Radical"     -> "Alpha"
      [] node.kind = "PlainText"   -> "Alpha"
      [] node.kind = "GenFraction" -> "Inner"
      [] node.kind = "Group"       -> "Alpha"
      [] node.kind = "Scripts"     ->
            IF node.base # NoNode THEN atom_type(node.base) ELSE "Alpha"
      [] node.kind = "Rule"        -> "Alpha"
      [] node.kind = "Kerning"     -> "Transparent"
      [] node.kind = "Style"       -> "Transparent"
      [] node.kind = "AtomChange"  -> node.at
      [] node.kind = "Color"       ->
            IF node.inner # <<>> THEN atom_type(node.inner[1]) ELSE "Alpha"
      [] node.kind = "Array"       -> "Inner"

(***************************************************************************)
(* Inter-atom spacing (layout::spacing): the atom-pair table, with the     *)
(* entries that apply in Display and Text styles only, and the width of    *)
(* each spacing in font units (1/6, 2/9 and 1/3 em).                       *)
(***************************************************************************)
SpacingAlways(left, right) ==
    CASE left = "Alpha" /\ IsOperator(right)   -> "Thin"
      [] IsOperator(left) /\ right = "Alpha"   -> "Thin"
      [] IsOperator(left) /\ IsOperator(right) -> "Thin"
      [] left = "Close" /\ IsOperator(right)   -> "Thin"
      [] left = "Inner" /\ IsOperator(right)   -> "Thin"
      [] OTHER                                 -> "None"

SpacingText(left, right) ==
    CASE left \in { "Alpha", "Close", "Inner" } /\ right = "Binary"   -> "Medium"
      [] left \in { "Alpha", "Close", "Inner" } /\ right = "Relation" -> "Thick"
      [] left \in { "Alpha", "Close" } /\ right = "Inner"             -> "Thin"
      [] IsOperator(left) /\ right = "Relation"                       -> "Thick"
      [] IsOperator(left) /\ right = "Inner"                          -> "Thin"
      [] left = "Binary" /\ (right \in { "Alpha", "Open", "Inner" }
                             \/ IsOperator(right))                    -> "Medium"
      [] left = "Relation" /\ (right \in { "Alpha", "Open", "Inner", "Relation" }
                               \/ IsOperator(right))                  -> "Thick"
      [] left = "Punctuation" /\ right \notin { "Binary", "Transparent" } -> "Thin"
      [] left = "Inner" /\ right \in { "Alpha", "Open", "Punctuation", "Inner" }
                                                                      -> "Thin"
      [] OTHER                                                        -> "None"

atom_spacing(left, right, style) ==
    IF SpacingAlways(left, right) # "None"
    THEN SpacingAlways(left, right)
    ELSE IF Level(style) >= 2 THEN SpacingText(left, right) ELSE "None"

Spacing_to_unit(sp) ==
    CASE sp = "Thin"   -> 166
      [] sp = "Medium" -> 222
      [] sp = "Thick"  -> 334

(***************************************************************************)
(* The font kerning table (font::kerning): the kern, in font units, of a   *)
(* script glyph attached to a base glyph.                                  *)
(***************************************************************************)
superscript_kern(bg, sg, shift) == IF bg.gid = "f" /\ sg.gid = "x" THEN 40 ELSE 0
subscript_kern(bg, sg, shift)   == IF bg.gid = "f" /\ sg.gid = "x" THEN -60 ELSE 0

(***************************************************************************)
(* The layout algorithm (engine.rs).  A LayoutSettings value is            *)
(* represented by its style: the font size is the unit of length.          *)
(* Accents are not modelled; delimited groups are laid out by              *)
(* add_delimited below and are not among the nodes the match is given.     *)
(***************************************************************************)
RECURSIVE layout(_, _)
RECURSIVE layout_recurse(_, _, _)
RECURSIVE Loop(_, _, _, _)
RECURSIVE add_scripts(_, _, _)
RECURSIVE add_frac(_, _, _)
RECURSIVE add_radical(_, _, _)
RECURSIVE add_atom_change(_, _, _, _)

\* a slip: Punctuation is missing from the previous atoms that reclassify
Reclassify_no_punct(prev, current, next) ==
    IF current = "Binary"
    THEN IF prev \in { "Transparent", "Binary", "Relation", "Open" }
         THEN "Alpha"
         ELSE IF IsOperator(prev)
              THEN "Alpha"
              ELSE IF next \in { "Relation", "Close", "Punctuation" }
                   THEN "Alpha"
                   ELSE current
    ELSE current

\* engine.rs:49-66: the atom type a node is given for spacing
Reclassify(prev, current, next) ==
    IF current = "Binary"
    THEN IF \/ prev = "Transparent"
            \/ prev = "Binary"
            \/ prev = "Relation"
            \/ prev = "Open"
            \/ prev = "Punctuation"
         THEN "Alpha"
         ELSE IF IsOperator(prev)
              THEN "Alpha"
              ELSE IF \/ next = "Relation"
                      \/ next = "Close"
                      \/ next = "Punctuation"
                   THEN "Alpha"
                   ELSE current
    ELSE current

\* engine.rs:131-135: the enlarged operator, shifted so that it is centred
\* on the axis
\* a slip: the axis is left out of the shift
LargeOpBox_on_baseline(largeop, style) ==
    VBox_build(VBox_set_offset(VBox_add_node(VBox_new, largeop),
        Half(largeop.height + largeop.depth)))

LargeOpBox(largeop, style) ==
    VBox_build(VBox_set_offset(VBox_add_node(VBox_new, largeop),
        Half(largeop.height + largeop.depth) - scaled(FontConst.AXIS_HEIGHT, style)))

\* engine.rs:125-139
add_largeop(result, sym, style) ==
    IF StyleGT(style, "Text")
    THEN Layout_add_node(result,
             LargeOpBox(
                 VariantGlyph_as_layout(
                     vert_variant(glyph_metrics(sym.unicode),
                                  FontFine(FontConst.DISPLAY_OPERATOR_MIN_HEIGHT)),
                     style),
                 style))
    ELSE Layout_add_node(result, Glyph_as_layout(glyph_metrics(sym.unicode), style))

\* engine.rs:114-123
add_symbol(result, sym, style) ==
    IF IsOperator(sym.atom_type)
    THEN add_largeop(result, sym, style)
    ELSE Layout_add_node(result, Glyph_as_layout(glyph_metrics(sym.unicode), style))

\* a slip: the height of the subscript is left out of the offset
LimitsOffset_kern_only(sub, sub_kern) == sub_kern

\* engine.rs:454-458: the offset that keeps the baseline of the operator
LimitsOffset(sub, sub_kern) == sub.height + sub_kern

\* engine.rs:435-489
add_operator_limits(result, base, sup, sub, style) ==
    LET gly      == Layout_is_symbol(base)
        delta    == IF gly # NoNode THEN gly.italics ELSE 0
        sup_kern == max(scaled(FontConst.UPPER_LIMIT_BASELINE_RISE_MIN, style),
                        scaled(FontConst.UPPER_LIMIT_GAP_MIN, style) - sup.depth)
        sub_kern == max(scaled(FontConst.LOWER_LIMIT_BASELINE_DROP_MIN, style)
                            - sub.height - base.depth,
                        scaled(FontConst.LOWER_LIMIT_GAP_MIN, style) - base.depth)
        offset   == LimitsOffset(sub, sub_kern)
        width    == max(max(base.width, sub.width + Half(delta)),
                        sup.width + Half(delta))
        sup_box  ==
            HBox_build(HBox_set_width(HBox_set_alignment(
                HBox_add_node(HBox_add_node(HBox_new, kern_horz(Half(delta))),
                              Layout_as_node(sup)),
                Centered(sup.width)), width))
        sub_box  ==
            HBox_build(HBox_set_width(HBox_set_alignment(
                HBox_add_node(HBox_add_node(HBox_new, kern_horz(-Half(delta))),
                              Layout_as_node(sub)),
                Centered(sub.width)), width))
        stack    ==
            VBox_add_node(
              VBox_add_node(
                VBox_add_node(
                  VBox_add_node(
                    VBox_add_node(VBox_new, sup_box),
                    kern_vert(sup_kern)),
                  Layout_as_node(Layout_centered(base, width))),
                kern_vert(sub_kern)),
              sub_box)
    IN  Layout_add_node(result, VBox_build(VBox_set_offset(stack, offset)))

\* engine.rs:91-98: the Color node that wraps the laid-out region
ColorNode(color, inner) ==
    [kind |-> "Color", width |-> inner.width, height |-> inner.height,
     depth |-> inner.depth, color |-> color, inner |-> inner.contents]

\* engine.rs:78-108: the node kinds layout_recurse ignores with a warning
IgnoredKinds == { "PlainText", "Stack", "Array" }

\* engine.rs:78-108: the match on the node; gives the new result and style
Dispatch(result, node, style, next) ==
    CASE node.kind = "Symbol" ->
            [result |-> add_symbol(result, node, style), style |-> style]
      [] node.kind = "Scripts" ->
            [result |-> add_scripts(result, node, style), style |-> style]
      [] node.kind = "Radical" ->
            [result |-> add_radical(result, node, style), style |-> style]
      [] node.kind = "GenFraction" ->
            [result |-> add_frac(result, node, style), style |-> style]
      [] node.kind = "Group" ->
            [result |-> Layout_add_node(result, Layout_as_node(layout(node.inner, style))),
             style |-> style]
      [] node.kind = "Rule" ->
            [result |-> Layout_add_node(result, Rule_as_layout(node, style)),
             style |-> style]
      [] node.kind = "Kerning" ->
            [result |-> Layout_add_node(result, kern_horz(scaled(node.unit, style))),
             style |-> style]
      [] node.kind = "Style" ->
            [result |-> result, style |-> node.style]
      [] node.kind = "Color" ->
            [result |-> Layout_add_node(result,
                 ColorNode(node.color, layout_recurse(node.inner, style, next))),
             style |-> style]
      [] node.kind = "AtomChange" ->
            [result |-> add_atom_change(result, node.at, node.inner, style),
             style |-> style]
      [] node.kind \in IgnoredKinds ->
            [result |-> result, style |-> style]

\* a slip: nothing is taken to follow the last node of a sequence
NextAtom_transparent(nodes, idx, parent_next) ==
    IF idx + 1 < Len(nodes) THEN atom_type(nodes[idx + 2]) ELSE "Transparent"

\* engine.rs:42-46: the atom type of the node after this one, the one that
\* follows the whole sequence for its last node
NextAtom(nodes, idx, parent_next) ==
    IF idx + 1 < Len(nodes) THEN atom_type(nodes[idx + 2]) ELSE parent_next

\* engine.rs:68-72: the kern between the previous atom and this one
Spaced(result, sp, style) ==
    IF sp # "None"
    THEN Layout_add_node(result, kern_horz(scaled(Spacing_to_unit(sp), style)))
    ELSE result

\* a slip: the style the match gave is lost
Advanced_style_kept(st, current, sp, done) ==
    [result |-> done.result,
     prev   |-> current,
     style  |-> st.style,
     lines  |-> Append(st.lines, << st.prev, current, sp >>)]

\* a slip: the previous atom is not updated
Advanced_prev_kept(st, current, sp, done) ==
    [result |-> done.result,
     prev   |-> st.prev,
     style  |-> done.style,
     lines  |-> Append(st.lines, << st.prev, current, sp >>)]

\* engine.rs:74-109: the loop state after the node was dispatched; done is
\* what the match gave
Advanced(st, current, sp, done) ==
    [result |-> done.result,
     prev   |-> current,
     style  |-> done.style,
     lines  |-> Append(st.lines, << st.prev, current, sp >>)]

\* engine.rs:68-109: spacing, the printed line and the match, for a node
\* whose atom type is settled as current
Stepped(st, node, current, next) ==
    Advanced(st, current, atom_spacing(st.prev, current, st.style),
             Dispatch(Spaced(st.result, atom_spacing(st.prev, current, st.style),
                             st.style),
                      node, st.style, next))

\* engine.rs:40-109: one iteration of the loop of layout_recurse on the loop
\* state st = (result, prev, style, lines)
Iterate(st, nodes, idx, parent_next) ==
    Stepped(st, nodes[idx + 1],
            Reclassify(st.prev, atom_type(nodes[idx + 1]), NextAtom(nodes, idx, parent_next)),
            NextAtom(nodes, idx, parent_next))

Loop(st, nodes, idx, parent_next) ==
    IF idx >= Len(nodes)
    THEN st
    ELSE Loop(Iterate(st, nodes, idx, parent_next), nodes, idx + 1, parent_next)

LoopStart(style) ==
    [result |-> Layout_new, prev |-> "Transparent", style |-> style, lines |-> <<>>]

\* engine.rs:33-112
layout_recurse(nodes, style, parent_next) ==
    Layout_finalize(Loop(LoopStart(style), nodes, 0, parent_next).result)

\* engine.rs:26-28
layout(nodes, style) == layout_recurse(nodes, style, "Transparent")

\* engine.rs:548-569
add_atom_change(result, at, inner, style) ==
    Layout_add_node(result, Layout_as_node(layout(inner, style)))

\* a slip: the gap between the scripts is not enforced
GapAdjust_none(adjust_up, adjust_down, sup, sub, style) == 0

\* engine.rs:396-405: what is added to both shifts so that the bottom of the
\* superscript stays gap_min above the top of the subscript
GapAdjust(adjust_up, adjust_down, sup, sub, style) ==
    LET sup_bot == adjust_up + sup.depth
        sub_top == sub.height - adjust_down
        gap_min == scaled(FontConst.SUB_SUPERSCRIPT_GAP_MIN, style)
    IN  IF sub.contents # <<>> /\ sup.contents # <<>> /\ sup_bot - sub_top < gap_min
        THEN Half(gap_min - sup_bot + sub_top)
        ELSE 0

\* engine.rs:310-405: the vertical shifts and horizontal kerns of the scripts
\* of a base without limits, after the gap between the scripts is enforced
ScriptShifts(scripts, base, sup, sub, style) ==
    LET b        == scripts.base
        has_sup  == scripts.superscript # NoNode
        has_sub  == scripts.subscript # NoNode
        base_sym == Layout_is_symbol(base)
        sup_sym  == Layout_is_symbol(sup)
        sub_sym  == Layout_is_symbol(sub)
        \* engine.rs:317-367
        up0      == scaled(IF is_cramped(style)
                           THEN FontConst.SUPERSCRIPT_SHIFT_UP_CRAMPED
                           ELSE FontConst.SUPERSCRIPT_SHIFT_UP, style)
        italic   == has_sup /\ b # NoNode /\ base_sym # NoNode
        sub_kern1 ==
            IF italic /\ IsOperator(atom_type(b)) THEN -base_sym.italics ELSE 0
        sup_kern ==
            IF italic /\ ~IsOperator(atom_type(b))
            THEN IF sup_sym # NoNode
                 THEN base_sym.italics
                      + scaled(superscript_kern(glyph_metrics(base_sym.gid),
                                                glyph_metrics(sup_sym.gid),
                                                to_font(up0)), style)
                 ELSE base_sym.italics
            ELSE 0
        drop_max == scaled(FontConst.SUPERSCRIPT_BASELINE_DROP_MAX, style)
        up1      ==
            IF has_sup
            THEN max(max(up0, base.height - drop_max),
                     scaled(FontConst.SUPERSCRIPT_BOTTOM_MIN, style) - sup.depth)
            ELSE 0
        \* engine.rs:371-393
        drop_min == scaled(FontConst.SUBSCRIPT_BASELINE_DROP_MIN, style)
        down1    ==
            IF has_sub
            THEN max(max(scaled(FontConst.SUBSCRIPT_SHIFT_DOWN, style),
                         sub.height - scaled(FontConst.SUBSCRIPT_TOP_MAX, style)),
                     drop_min + (-base.depth))
            ELSE 0
        sub_kern ==
            IF has_sub /\ b # NoNode /\ sub_sym # NoNode /\ base_sym # NoNode
            THEN sub_kern1
                 + scaled(subscript_kern(glyph_metrics(base_sym.gid),
                                         glyph_metrics(sub_sym.gid),
                                         to_font(down1)), style)
            ELSE sub_kern1
        adjust   == GapAdjust(up1, down1, sup, sub, style)
    IN  [adjust_up |-> up1 + adjust, adjust_down |-> down1 + adjust,
         sup_kern |-> sup_kern, sub_kern |-> sub_kern]

\* engine.rs:407-429: sup.contents.insert(0, kern); sup.width += kern
Layout_kerned(lay, kern) ==
    IF kern # 0
    THEN [lay EXCEPT !.contents = <<kern_horz(kern)>> \o @, !.width = @ + kern]
    ELSE lay

\* a slip: the kern under the superscript is the shift of the superscript alone
ScriptBoxSup_uncorrected(sh, sup, sub) ==
    IF sup.contents # <<>>
    THEN VBox_add_node(
             VBox_add_node(VBox_new, Layout_as_node(Layout_kerned(sup, sh.sup_kern))),
             kern_vert(sh.adjust_up))
    ELSE VBox_new

\* engine.rs:407-432: the vertical box that holds the scripts
ScriptBoxSup(sh, sup, sub) ==
    IF sup.contents # <<>>
    THEN VBox_add_node(
             VBox_add_node(VBox_new, Layout_as_node(Layout_kerned(sup, sh.sup_kern))),
             kern_vert(sh.adjust_up - sub.height + sh.adjust_down))
    ELSE VBox_new

\* a slip: a subscript of one node is added without its box
ScriptBoxSub_unboxed(contents, sh, sub) ==
    IF sub.contents # <<>>
    THEN VBox_add_node(contents,
             IF Len(sub.contents) = 1 /\ sh.sub_kern = 0
             THEN sub.contents[1]
             ELSE Layout_as_node(Layout_kerned(sub, sh.sub_kern)))
    ELSE contents

ScriptBoxSub(contents, sh, sub) ==
    IF sub.contents # <<>>
    THEN VBox_add_node(contents, Layout_as_node(Layout_kerned(sub, sh.sub_kern)))
    ELSE contents

ScriptBox(sh, sup, sub) ==
    VBox_build(
        ScriptBoxSub(VBox_set_offset(ScriptBoxSup(sh, sup, sub), sh.adjust_down),
                     sh, sub))

\* engine.rs:300-432: the scripts once base, sup and sub are laid out
ScriptsLaidOut(result, scripts, base, sup, sub, style) ==
    IF scripts.base # NoNode /\ atom_type(scripts.base) = "Operator(true)"
    THEN add_operator_limits(result, base, sup, sub, style)
    ELSE Layout_add_node(
             Layout_add_node(result, Layout_as_node(base)),
             ScriptBox(ScriptShifts(scripts, base, sup, sub, style), sup, sub))

\* engine.rs:282-433
add_scripts(result, scripts, style) ==
    ScriptsLaidOut(result, scripts,
        IF scripts.base # NoNode
        THEN layout(<< scripts.base >>, style)
        ELSE Layout_new,
        IF scripts.superscript # NoNode
        THEN layout(<< scripts.superscript >>, superscript_variant(style))
        ELSE Layout_new,
        IF scripts.subscript # NoNode
        THEN layout(<< scripts.subscript >>, subscript_variant(style))
        ELSE Layout_new,
        style)

\* engine.rs:492-496
BarThickness(frac, style) ==
    CASE frac.bar_thickness.tag = "Default" -> scaled(FontConst.FRACTION_RULE_THICKNESS, style)
      [] frac.bar_thickness.tag = "None"    -> 0
      [] frac.bar_thickness.tag = "Unit"    -> scaled(frac.bar_thickness.unit, style)

\* a slip: the wider of the two is the one that is centred
FracAlign_swapped(n, d) ==
    IF n.width > d.width
    THEN [n |-> [n EXCEPT !.alignment = Centered(n.width), !.width = d.width], d |-> d]
    ELSE [n |-> n, d |-> [d EXCEPT !.alignment = Centered(d.width), !.width = n.width]]

\* engine.rs:501-507
FracAlign(n, d) ==
    IF n.width > d.width
    THEN [n |-> n, d |-> [d EXCEPT !.alignment = Centered(d.width), !.width = n.width]]
    ELSE [n |-> [n EXCEPT !.alignment = Centered(n.width), !.width = d.width], d |-> d]

\* engine.rs:512-528: the shifts and minimum gaps of the style
FracParams(style) ==
    IF StyleGT(style, "Text")
    THEN [shift_up   |-> scaled(FontConst.FRACTION_NUMERATOR_DISPLAY_STYLE_SHIFT_UP, style),
          shift_down |-> scaled(FontConst.FRACTION_DENOMINATOR_DISPLAY_STYLE_SHIFT_DOWN, style),
          gap_num    |-> scaled(FontConst.FRACTION_NUM_DISPLAY_STYLE_GAP_MIN, style),
          gap_denom  |-> scaled(FontConst.FRACTION_DENOM_DISPLAY_STYLE_GAP_MIN, style)]
    ELSE [shift_up   |-> scaled(FontConst.FRACTION_NUMERATOR_SHIFT_UP, style),
          shift_down |-> scaled(FontConst.FRACTION_DENOMINATOR_SHIFT_DOWN, style),
          gap_num    |-> scaled(FontConst.FRACTION_NUMERATOR_GAP_MIN, style),
          gap_denom  |-> scaled(FontConst.FRACTION_DENOMINATOR_GAP_MIN, style)]

\* a slip: the kerns keep the shifts and ignore the minimum gaps
FracBox_nogap(numer, denom, bar, style) ==
    LET p        == FracParams(style)
        axis     == scaled(FontConst.AXIS_HEIGHT, style)
        kern_num == p.shift_up - axis - Half(bar)
        kern_den == p.shift_down + axis - denom.height - Half(bar)
        offset   == denom.height + kern_den + Half(bar) - axis
    IN  VBox_build(VBox_set_offset(
            VBox_add_node(VBox_add_node(VBox_add_node(VBox_add_node(
                VBox_add_node(VBox_new, numer),
                kern_vert(kern_num)),
                rule(numer.width, bar, 0)),
                kern_vert(kern_den)),
                denom),
            offset))

\* a slip: half the bar is left out of the offset
FracBox_bar_on_axis(numer, denom, bar, style) ==
    LET p        == FracParams(style)
        axis     == scaled(FontConst.AXIS_HEIGHT, style)
        kern_num == max(p.shift_up - axis - Half(bar), p.gap_num - numer.depth)
        kern_den == max(p.shift_down + axis - denom.height - Half(bar), p.gap_denom)
        offset   == denom.height + kern_den - axis
    IN  VBox_build(VBox_set_offset(
            VBox_add_node(VBox_add_node(VBox_add_node(VBox_add_node(
                VBox_add_node(VBox_new, numer),
                kern_vert(kern_num)),
                rule(numer.width, bar, 0)),
                kern_vert(kern_den)),
                denom),
            offset))

\* engine.rs:530-541: the vertical box of numerator, bar and denominator
FracBox(numer, denom, bar, style) ==
    LET p        == FracParams(style)
        axis     == scaled(FontConst.AXIS_HEIGHT, style)
        kern_num == max(p.shift_up - axis - Half(bar), p.gap_num - numer.depth)
        kern_den == max(p.shift_down + axis - denom.height - Half(bar), p.gap_denom)
        offset   == denom.height + kern_den + Half(bar) - axis
    IN  VBox_build(VBox_set_offset(
            VBox_add_node(VBox_add_node(VBox_add_node(VBox_add_node(
                VBox_add_node(VBox_new, numer),
                kern_vert(kern_num)),
                rule(numer.width, bar, 0)),
                kern_vert(kern_den)),
                denom),
            offset))

\* engine.rs:509-541: the box of the aligned numerator and denominator
FracAligned(nd, bar, style) ==
    FracBox(Layout_as_node(nd.n), Layout_as_node(nd.d), bar, style)

\* kern!(horz: NULL_DELIMITER_SPACE): a pixel constant, not scaled by the style
NullDelimiterKern == kern_horz(FontFine(FontConst.NULL_DELIMITER_SPACE))

\* engine.rs:491-546
add_frac(result, frac, style) ==
    Layout_add_node(
        Layout_add_node(
            Layout_add_node(result, NullDelimiterKern),
            FracAligned(FracAlign(layout(frac.numerator, numerator(style)),
                                  layout(frac.denominator, denominator(style))),
                        BarThickness(frac, style), style)),
        NullDelimiterKern)

\* engine.rs:576-579: the minimum gap of the style, in font units
RadicalGap(style) ==
    IF StyleGE(style, "Display")
    THEN FontConst.RADICAL_DISPLAY_STYLE_VERTICAL_GAP
    ELSE FontConst.RADICAL_VERTICAL_GAP

\* engine.rs:581-584: the size asked of the radical glyph, in font units; the
\* pixel extent of the content is divided by the font size only, not by the
\* scale factor of the style
RadicalSize(contents, style) ==
    to_font(contents.height - contents.depth)
    + FontFine(RadicalGap(style))
    + FontFine(FontConst.RADICAL_EXTRA_ASCENDER)

\* engine.rs:590-609: the box of the radical glyph and the box of the content
\* under its rule
RadicalBoxes(result, contents, glyph, style) ==
    LET gap            == scaled(RadicalGap(style), style)
        rule_thickness == scaled(FontConst.RADICAL_RULE_THICKNESS, style)
        inner_center   == Half(gap + contents.height + contents.depth + rule_thickness)
        sym_center     == Half(glyph.height + glyph.depth)
        offset         == sym_center - inner_center
        top_padding    == scaled(FontConst.RADICAL_EXTRA_ASCENDER, style)
                          - scaled(FontConst.RADICAL_RULE_THICKNESS, style)
        kerning        == (glyph.height - offset)
                          - scaled(FontConst.RADICAL_EXTRA_ASCENDER, style)
                          - contents.height
    IN  Layout_add_node(
            Layout_add_node(result,
                VBox_build(VBox_set_offset(VBox_add_node(VBox_new, glyph), offset))),
            VBox_build(
                VBox_add_node(VBox_add_node(VBox_add_node(
                    VBox_add_node(VBox_new, kern_vert(top_padding)),
                    rule(contents.width, rule_thickness, 0)),
                    kern_vert(kerning)),
                    contents)))

\* engine.rs:581-588: the radical glyph for laid-out contents
RadicalGlyph(contents, style) ==
    VariantGlyph_as_layout(
        vert_variant(glyph_metrics("sqrt"), RadicalSize(contents, style)), style)

\* engine.rs:573-609: the radical once its contents are laid out
RadicalLaidOut(result, contents, style) ==
    RadicalBoxes(result, contents, RadicalGlyph(contents, style), style)

\* engine.rs:571-611
add_radical(result, rad, style) ==
    RadicalLaidOut(result, Layout_as_node(layout(rad.inner, cramped(style))), style)

\* LayoutNode::centered(axis): the node in a vertical box whose offset puts
\* the middle of the node on the axis
Node_centered(node, axis) ==
    VBox_build(VBox_set_offset(VBox_add_node(VBox_new, node),
        Half(node.height + node.depth) - axis))

\* engine.rs:236: the inner group is large enough for extended delimiters
DelimitedIsLarge(inner) ==
    max(to_font(inner.height), - to_font(inner.depth))
        > Half(FontFine(FontConst.DELIMITED_SUB_FORMULA_MIN_HEIGHT))

\* engine.rs:237-241: the clearance in thousandths of the unit of to_font
\* (DELIMITER_FACTOR is 0.901); the axis is the unscaled constant
DelimiterClearance(inner) ==
    LET height == to_font(inner.height)
        depth  == to_font(inner.depth)
        axis   == FontFine(FontConst.AXIS_HEIGHT)
    IN  max(FontConst.DELIMITER_FACTOR_PER_MILLE
                * (2 * max(height - axis, axis - depth)),
            1000 * (height - depth - FontFine(FontConst.DELIMITER_SHORT_FALL)))

\* the least whole amount that is at least x thousandths: a glyph extent, a
\* whole amount, is at least the clearance exactly when it is at least this
WholeAtLeast(x) == - ((- x) \div 1000)

\* engine.rs:243-258: the node of one delimiter of a large group
LargeDelimiter(sym, inner, style) ==
    IF sym.unicode = NullDelimiter
    THEN NullDelimiterKern
    ELSE Node_centered(
             VariantGlyph_as_layout(
                 vert_variant(glyph_metrics(sym.unicode),
                              WholeAtLeast(DelimiterClearance(inner))),
                 style),
             scaled(FontConst.AXIS_HEIGHT, style))

\* engine.rs:265-274: the node of one delimiter of a small group
SmallDelimiter(sym, style) ==
    IF sym.unicode = NullDelimiter
    THEN NullDelimiterKern
    ELSE Glyph_as_layout(glyph_metrics(sym.unicode), style)

\* engine.rs:226-280: the delimited group once its inner group is laid out
DelimitedLaidOut(result, delim, inner, style) ==
    IF DelimitedIsLarge(inner)
    THEN Layout_add_node(Layout_add_node(Layout_add_node(result,
             LargeDelimiter(delim.left, inner, style)), inner),
             LargeDelimiter(delim.right, inner, style))
    ELSE Layout_add_node(Layout_add_node(Layout_add_node(result,
             SmallDelimiter(delim.left, style)), inner),
             SmallDelimiter(delim.right, style))

\* engine.rs:226-280
add_delimited(result, delim, style) ==
    DelimitedLaidOut(result, delim, Layout_as_node(layout(delim.inner, style)), style)

(***************************************************************************)
(* The engine as a state machine, I: layout_recurse, one loop iteration    *)
(* per step, on the node sequences below.  layout() enters it with         *)
(* parent_next = Transparent, the Color arm (engine.rs:91) with the atom   *)
(* type of the node that follows the colour region.                        *)
(***************************************************************************)
MaxNodes == 2

Atoms ==
    { Symbol("x", "Alpha"), Symbol("plus", "Binary"), Symbol("eq", "Relation"),
      Symbol("lparen", "Open"), Symbol("rparen", "Close"),
      Symbol("comma", "Punctuation"), Symbol("sum", "Operator(true)"),
      Symbol("int", "Operator(false)"),
      Kerning(100), StyleNode("Script"), PlainText,
      Color(<< Symbol("plus", "Binary") >>),
      Color(<< Symbol("x", "Alpha"), Symbol("plus", "Binary") >>),
      Group(<< Symbol("x", "Alpha"), Symbol("plus", "Binary") >>),
      AtomChange("Alpha", << Symbol("x", "Alpha"), Symbol("plus", "Binary") >>),
      Group(<< StyleNode("Script"), Symbol("x", "Alpha") >>) }

RECURSIVE SeqsUpTo(_, _)
SeqsUpTo(S, n) ==
    IF n = 0
    THEN { <<>> }
    ELSE LET shorter == SeqsUpTo(S, n - 1)
         IN  shorter \cup { Append(q, x) : q \in shorter, x \in S }

EntryStyles  == { "Display", "TextCramped", "Script", "ScriptScriptCramped" }
ParentNexts  == { "Transparent", "Relation", "Close", "Punctuation" }

InitLayout ==
    /\ BuildersIdle
    /\ formula \in SeqsUpTo(Atoms, MaxNodes)
    /\ settings \in EntryStyles
    /\ cur_parent_next \in ParentNexts
    /\ pc = "loop"
    /\ cur_idx = 0
    /\ cur_prev = "Transparent"
    /\ cur_config = settings
    /\ cur_result = Layout_new
    /\ lines = <<>>

\* engine.rs:40-109: the iteration on a node whose kind is in kinds
IterateOn(kinds) ==
    /\ pc = "loop"
    /\ cur_idx < Len(formula)
    /\ formula[cur_idx + 1].kind \in kinds
    /\ LET st == Iterate([result |-> cur_result, prev |-> cur_prev,
                          style |-> cur_config, lines |-> lines],
                         formula, cur_idx, cur_parent_next)
       IN  /\ cur_result' = st.result
           /\ cur_prev' = st.prev
           /\ cur_config' = st.style
           /\ lines' = st.lines
    /\ cur_idx' = cur_idx + 1
    /\ UNCHANGED <<bvars, formula, settings, cur_parent_next, pc>>

IterSymbol  == IterateOn({ "Symbol" })
IterKerning == IterateOn({ "Kerning", "Rule" })
IterStyle   == IterateOn({ "Style" })
IterNested  ==
    IterateOn({ "Color", "Group", "AtomChange", "Scripts", "Radical", "GenFraction" })
IterIgnored == IterateOn(IgnoredKinds)

\* engine.rs:111
LayoutFinalize ==
    /\ pc = "loop"
    /\ cur_idx >= Len(formula)
    /\ cur_result' = Layout_finalize(cur_result)
    /\ pc' = "done"
    /\ UNCHANGED <<bvars, formula, settings, cur_parent_next, cur_idx, cur_prev,
                   cur_config, lines>>

NextLayout ==
    \/ IterSymbol
    \/ IterKerning
    \/ IterStyle
    \/ IterNested
    \/ IterIgnored
    \/ LayoutFinalize

SpecLayout == InitLayout /\ [][NextLayout]_vars

(***************************************************************************)
(* The engine as a state machine, II: the sub-layouts add_scripts,         *)
(* add_frac and add_radical, each applied to a fresh Layout for one        *)
(* scripted base, fraction or radical in one style.                        *)
(***************************************************************************)
ScriptBases ==
    { NoNode, Symbol("x", "Alpha"), Symbol("f", "Alpha"), Symbol("g", "Alpha"),
      Symbol("int", "Operator(false)"), Symbol("sum", "Operator(true)"),
      Group(<< Symbol("x", "Alpha"), Symbol("f", "Alpha") >>),
      Color(<< Symbol("sum", "Operator(true)") >>) }

ScriptArgs ==
    { NoNode, Symbol("x", "Alpha"), Symbol("f", "Alpha"), Symbol("g", "Alpha"),
      Symbol("dot", "Alpha"), PlainText, Color(<< Symbol("x", "Alpha") >>) }

FracArgs ==
    { << Symbol("x", "Alpha") >>, << Symbol("f", "Alpha") >>,
      << Symbol("g", "Alpha") >>, << Symbol("dot", "Alpha") >>,
      << Symbol("x", "Alpha"), Symbol("x", "Alpha") >>,
      << Color(<< Symbol("g", "Alpha") >>) >> }

BarArgs == { BarDefault, BarNone, BarUnit(100) }

RadicalArgs ==
    FracArgs \cup
    { << Scripts(Symbol("f", "Alpha"), Symbol("f", "Alpha"), Symbol("f", "Alpha")) >>,
      << GenFraction(<< Symbol("f", "Alpha") >>, << Symbol("g", "Alpha") >>, BarDefault) >> }

\* the delimiters: parentheses and the null delimiter
DelimiterArgs ==
    { Symbol("lparen", "Open"), Symbol("rparen", "Close"),
      Symbol(NullDelimiter, "Open") }

\* the inner groups of the delimited groups, small ones and large ones
DelimitedArgs ==
    FracArgs \cup
    { << Symbol("sum", "Operator(true)") >>,
      << Symbol("int", "Operator(false)") >>,
      << GenFraction(<< Symbol("f", "Alpha") >>, << Symbol("g", "Alpha") >>, BarDefault) >>,
      << Radical(<< GenFraction(<< Symbol("f", "Alpha") >>, << Symbol("g", "Alpha") >>,
                               BarDefault) >>) >> }

Composites ==
    { Scripts(b, p, q) : b \in ScriptBases, p \in ScriptArgs, q \in ScriptArgs }
    \cup { Delimited(l, r, i) : l \in DelimiterArgs, r \in DelimiterArgs,
                                i \in DelimitedArgs }
    \cup { GenFraction(n, d, t) : n \in FracArgs, d \in FracArgs, t \in BarArgs }
    \cup { Radical(i) : i \in RadicalArgs }

InitEngine ==
    /\ BuildersIdle
    /\ formula \in { << c >> : c \in Composites }
    /\ settings \in Styles
    /\ cur_parent_next = "Transparent"
    /\ pc = "call"
    /\ cur_idx = 0
    /\ cur_prev = "Transparent"
    /\ cur_config = settings
    /\ cur_result = Layout_new
    /\ lines = <<>>

CallAddScripts ==
    /\ pc = "call"
    /\ formula[1].kind = "Scripts"
    /\ cur_result' = add_scripts(cur_result, formula[1], cur_config)
    /\ pc' = "done"
    /\ UNCHANGED <<bvars, formula, settings, cur_parent_next, cur_idx, cur_prev,
                   cur_config, lines>>

CallAddFrac ==
    /\ pc = "call"
    /\ formula[1].kind = "GenFraction"
    /\ cur_result' = add_frac(cur_result, formula[1], cur_config)
    /\ pc' = "done"
    /\ UNCHANGED <<bvars, formula, settings, cur_parent_next, cur_idx, cur_prev,
                   cur_config, lines>>

CallAddRadical ==
    /\ pc = "call"
    /\ formula[1].kind = "Radical"
    /\ cur_result' = add_radical(cur_result, formula[1], cur_config)
    /\ pc' = "done"
    /\ UNCHANGED <<bvars, formula, settings, cur_parent_next, cur_idx, cur_prev,
                   cur_config, lines>>

CallAddDelimited ==
    /\ pc = "call"
    /\ formula[1].kind = "Delimited"
    /\ cur_result' = add_delimited(cur_result, formula[1], cur_config)
    /\ pc' = "done"
    /\ UNCHANGED <<bvars, formula, settings, cur_parent_next, cur_idx, cur_prev,
                   cur_config, lines>>

NextEngine ==
    \/ CallAddDelimited
    \/ CallAddScripts
    \/ CallAddFrac
    \/ CallAddRadical

SpecEngine == InitEngine /\ [][NextEngine]_vars

(***************************************************************************)
(* Properties of layout_recurse.                                           *)
(***************************************************************************)
\* the atom type the i-th node was given (the "current" of its printed line)
TreatedAs(i) == lines[i][2]

\* the previous atom of the i-th node: Transparent at the start, otherwise
\* what the node before it was treated as
PrevOf(i) == IF i = 1 THEN "Transparent" ELSE TreatedAs(i - 1)

\* the next atom of the i-th node: the atom type of the node after it, what
\* follows the sequence for the last node
NextOf(i) ==
    IF i < Len(formula) THEN atom_type(formula[i + 1]) ELSE cur_parent_next

SingleSymbolDone ==
    /\ pc = "done"
    /\ Len(formula) = 1
    /\ formula[1].kind = "Symbol"

\* node is a Glyph node with the metrics of the glyph of unicode, multiplied
\* by the scale factor of the style once
GlyphScaledOnce(node, unicode, style) ==
    /\ node.kind = "Glyph"
    /\ node.width  = glyph_metrics(unicode).advance * Subdiv * scale_factor(style)
    /\ node.height = glyph_metrics(unicode).height * Subdiv * scale_factor(style)
    /\ node.depth  = glyph_metrics(unicode).depth * Subdiv * scale_factor(style)

\* C10 as stated: a single bare symbol gives exactly one node, a Glyph node
\* with the glyph's metrics scaled once by the style.
C10_SingleSymbolIsOneGlyph ==
    SingleSymbolDone =>
        /\ Len(cur_result.contents) = 1
        /\ GlyphScaledOnce(cur_result.contents[1], formula[1].unicode, settings)

\* C10 amended: a single bare symbol gives exactly one node; it is a Glyph
\* node with the metrics scaled once unless the symbol is an Operator laid
\* out in a Display style, which gives one vertical box around the enlarged
\* operator, at least DISPLAY_OPERATOR_MIN_HEIGHT tall.
C10_SingleSymbolGlyphOrLargeOp ==
    SingleSymbolDone =>
        /\ Len(cur_result.contents) = 1
        /\ IF IsOperator(formula[1].atom_type) /\ Level(settings) = 3
           THEN /\ cur_result.contents[1].kind = "VerticalBox"
                /\ Len(cur_result.contents[1].contents) = 1
                /\ cur_result.contents[1].contents[1].height
                   - cur_result.contents[1].contents[1].depth
                       >= FontConst.DISPLAY_OPERATOR_MIN_HEIGHT * Subdiv * scale_factor(settings)
           ELSE GlyphScaledOnce(cur_result.contents[1], formula[1].unicode, settings)

\* C10 witness: x laid out in Script style is one glyph at 70% of its metrics
C10_Witness ==
    /\ SingleSymbolDone
    /\ formula[1] = Symbol("x", "Alpha")
    /\ settings = "Script"
    /\ cur_result.contents[1].kind = "Glyph"
    /\ cur_result.contents[1].width = glyph_metrics("x").advance * Subdiv * 70
    /\ cur_result.width = cur_result.contents[1].width

(***************************************************************************)
(* Properties of the sub-layouts.  In a vertical box a child starts where  *)
(* the heights of the children above it end (render_vbox advances by the   *)
(* height only), so the bottom edge of a child reaches -depth below the    *)
(* top of the child that follows it.                                       *)
(***************************************************************************)
\* a scripted base without limits was laid out, both scripts are present and
\* both are in the script box (a script that lays out to nothing is not)
BothScriptsDone ==
    /\ pc = "done"
    /\ formula[1].kind = "Scripts"
    /\ ~(formula[1].base # NoNode /\ atom_type(formula[1].base) = "Operator(true)")
    /\ formula[1].superscript # NoNode
    /\ formula[1].subscript # NoNode
    /\ Len(cur_result.contents[2].contents) = 3

\* in the script box << superscript, kern, subscript >>: the distance from
\* the bottom edge of the superscript to the top edge of the subscript
ScriptGap(b) == b.contents[2].height + b.contents[1].depth

\* C6: with both scripts present on a base without limits, the bottom of the
\* superscript is at least SUB_SUPERSCRIPT_GAP_MIN (scaled by the style)
\* above the top of the subscript in the script box.
C6_ScriptGapAtLeastMinimum ==
    BothScriptsDone =>
        ScriptGap(cur_result.contents[2])
            >= FontConst.SUB_SUPERSCRIPT_GAP_MIN * Subdiv * scale_factor(settings)

\* C6 witness: f with superscript f and subscript f in Text style, where the
\* default shifts leave a smaller gap and the adjustment makes it the minimum
C6_Witness ==
    /\ BothScriptsDone
    /\ settings = "Text"
    /\ formula[1] = Scripts(Symbol("f", "Alpha"), Symbol("f", "Alpha"),
                            Symbol("f", "Alpha"))
    /\ cur_result.contents[2].contents[1].depth < 0
    /\ ScriptGap(cur_result.contents[2])
           = FontConst.SUB_SUPERSCRIPT_GAP_MIN * Subdiv * scale_factor("Text")

\* a fraction was laid out: kern, << numerator, kern, bar, kern, denominator >>
\* in a vertical box, kern
FracDone ==
    /\ pc = "done"
    /\ formula[1].kind = "GenFraction"

FracBoxOf(result) == result.contents[2]

\* the minimum gaps of the style, display set in Display styles
NumGapMin(style) ==
    (IF Level(style) = 3
     THEN FontConst.FRACTION_NUM_DISPLAY_STYLE_GAP_MIN
     ELSE FontConst.FRACTION_NUMERATOR_GAP_MIN) * Subdiv * scale_factor(style)

DenomGapMin(style) ==
    (IF Level(style) = 3
     THEN FontConst.FRACTION_DENOM_DISPLAY_STYLE_GAP_MIN
     ELSE FontConst.FRACTION_DENOMINATOR_GAP_MIN) * Subdiv * scale_factor(style)

\* C7: in the box of every fraction the bottom of the numerator is at least
\* the numerator gap minimum above the bar and the top of the denominator at
\* least the denominator gap minimum below it, with the display-style
\* minimums in Display styles and the text-style ones otherwise.
C7_FractionGapsAtLeastMinimum ==
    FracDone =>
        /\ Len(FracBoxOf(cur_result).contents) = 5
        /\ FracBoxOf(cur_result).contents[3].kind = "Rule"
        /\ FracBoxOf(cur_result).contents[2].height
           + FracBoxOf(cur_result).contents[1].depth >= NumGapMin(settings)
        /\ FracBoxOf(cur_result).contents[4].height >= DenomGapMin(settings)

\* C7 witness: g over x in Display style, where the shift alone would leave
\* the descender of g closer to the bar than the display minimum
C7_Witness ==
    /\ FracDone
    /\ settings = "Display"
    /\ formula[1].numerator = << Symbol("g", "Alpha") >>
    /\ formula[1].bar_thickness = BarDefault
    /\ FracBoxOf(cur_result).contents[1].depth < 0
    /\ FracBoxOf(cur_result).contents[2].height
       + FracBoxOf(cur_result).contents[1].depth = NumGapMin("Display")

\* the natural widths of numerator and denominator
NumWidth == layout(formula[1].numerator, numerator(settings)).width
DenWidth == layout(formula[1].denominator, denominator(settings)).width

\* C8: numerator and denominator box both report the width of the wider of
\* the two, the narrower is Centered(its own width), the wider keeps the
\* default alignment.
C8_NarrowerCenteredInWider ==
    FracDone =>
        /\ FracBoxOf(cur_result).contents[1].width = max(NumWidth, DenWidth)
        /\ FracBoxOf(cur_result).contents[5].width = max(NumWidth, DenWidth)
        /\ NumWidth > DenWidth =>
              /\ FracBoxOf(cur_result).contents[5].alignment = Centered(DenWidth)
              /\ FracBoxOf(cur_result).contents[1].alignment = Default
        /\ NumWidth < DenWidth =>
              /\ FracBoxOf(cur_result).contents[1].alignment = Centered(NumWidth)
              /\ FracBoxOf(cur_result).contents[5].alignment = Default

\* C8 witness: a numerator twice as wide as the denominator; the denominator
\* box reports the numerator's width and is centred around its own
C8_Witness ==
    /\ FracDone
    /\ DenWidth > 0
    /\ NumWidth = 2 * DenWidth
    /\ FracBoxOf(cur_result).contents[5].width = NumWidth
    /\ FracBoxOf(cur_result).contents[5].alignment = Centered(DenWidth)
    /\ FracBoxOf(cur_result).contents[1].alignment = Default

\* a radical was laid out
RadicalDone ==
    /\ pc = "done"
    /\ formula[1].kind = "Radical"

\* the minimum gap of the style, scaled
RadicalGapMin(style) ==
    (IF Level(style) = 3
     THEN FontConst.RADICAL_DISPLAY_STYLE_VERTICAL_GAP
     ELSE FontConst.RADICAL_VERTICAL_GAP) * Subdiv * scale_factor(style)

\* C9: a radical is two vertical boxes, the glyph box and the content box; the
\* extent of the radical glyph exceeds the extent (height - depth) of the
\* content by at least the minimum gap of the style, and the content box is
\* as wide as the content.
C9_RadicalGlyphClearsContent ==
    RadicalDone =>
        /\ Len(cur_result.contents) = 2
        /\ cur_result.contents[1].kind = "VerticalBox"
        /\ cur_result.contents[2].kind = "VerticalBox"
        /\ Len(cur_result.contents[1].contents) = 1
        /\ Len(cur_result.contents[2].contents) = 4
        /\ cur_result.contents[2].width = cur_result.contents[2].contents[4].width
        /\ cur_result.contents[1].contents[1].height
           - cur_result.contents[1].contents[1].depth
               >= cur_result.contents[2].contents[4].height
                  - cur_result.contents[2].contents[4].depth
                  + RadicalGapMin(settings)

(***************************************************************************)
(* Glyph lookups that fail.  The font-metrics provider holds no glyph for  *)
(* some codes; VariantGlyph::as_layout (convert.rs:47-89) is followed part *)
(* by part, and the loop of layout_recurse (engine.rs:40-109) symbol by    *)
(* symbol.                                                                 *)
(***************************************************************************)
MaxParts == 3

HasGlyph(code) == code \in DOMAIN GlyphTable

\* the failure of a lookup (crate::error::LayoutError)
MissingGlyph(code) == [kind |-> "LayoutError", missing |-> code]

IsFailure(r) == "missing" \in DOMAIN r

\* a slip: a part whose glyph cannot be resolved is left out
ConvertPart_skip(b, instr, dir, style) ==
    IF ~ HasGlyph(instr.gid)
    THEN b
    ELSE IF dir = "Vertical"
         THEN VerticalParts(b, << instr >>, style)
         ELSE HorizontalParts(b, << instr >>, style)

\* convert.rs:59-67 and 74-80, one turn of `for instr in parts`: the builder
\* with the part added, or the failure `?` returns
ConvertPart(b, instr, dir, style) ==
    IF ~ HasGlyph(instr.gid)
    THEN MissingGlyph(instr.gid)
    ELSE IF dir = "Vertical"
         THEN VerticalParts(b, << instr >>, style)
         ELSE HorizontalParts(b, << instr >>, style)

VariantParts ==
    { [gid |-> "part_bottom", overlap |-> 0],
      [gid |-> "part_ext", overlap |-> PartOverlap],
      [gid |-> "part_top", overlap |-> PartOverlap],
      [gid |-> "part_mid", overlap |-> 0] }

LookupSymbols ==
    { Symbol("x", "Alpha"), Symbol("plus", "Binary"), Symbol("cyr", "Alpha") }

LookupStyles == { "Text", "Script" }

LayoutIdle ==
    /\ cur_parent_next = "Transparent"
    /\ cur_idx = 0
    /\ cur_prev = "Transparent"
    /\ cur_config = settings
    /\ lines = <<>>

InitLookup ==
    /\ settings \in LookupStyles
    /\ LayoutIdle
    /\ built = NoNode
    /\ \/ /\ pc = "convert"
          /\ hist \in { [tag |-> "Constructable", dir |-> d] :
                           d \in { "Vertical", "Horizontal" } }
          /\ box = (IF hist.dir = "Vertical" THEN VBox_new ELSE HBox_new)
          /\ formula \in SeqsUpTo(VariantParts, MaxParts)
          /\ cur_result = NoNode
       \/ /\ pc = "convert"
          /\ hist = [tag |-> "Replacement", dir |-> "None"]
          /\ box = NoBox
          /\ formula \in { << [gid |-> g, overlap |-> 0] >> :
                              g \in { "sqrt_1", "sqrt_3" } }
          /\ cur_result = NoNode
       \/ /\ pc = "loop"
          /\ hist = NoHist
          /\ box = NoBox
          /\ formula \in SeqsUpTo(LookupSymbols, MaxParts)
          /\ cur_result = Layout_new

\* convert.rs:50-53
ConvertReplacement ==
    /\ pc = "convert"
    /\ hist.tag = "Replacement"
    /\ cur_idx = 0
    /\ IF HasGlyph(formula[1].gid)
       THEN /\ built' = Glyph_as_layout(glyph_metrics(formula[1].gid), cur_config)
            /\ pc' = "converted"
       ELSE /\ built' = MissingGlyph(formula[1].gid)
            /\ pc' = "failed"
    /\ cur_idx' = 1
    /\ UNCHANGED <<box, hist, formula, settings, cur_parent_next, cur_prev,
                   cur_config, cur_result, lines>>

\* convert.rs:59-67, 74-80: a part whose glyph is resolved
ConvertInsert ==
    /\ pc = "convert"
    /\ hist.tag = "Constructable"
    /\ cur_idx < Len(formula)
    /\ ~ IsFailure(ConvertPart(box, formula[cur_idx + 1], hist.dir, cur_config))
    /\ box' = ConvertPart(box, formula[cur_idx + 1], hist.dir, cur_config)
    /\ cur_idx' = cur_idx + 1
    /\ UNCHANGED <<built, hist, formula, settings, cur_parent_next, pc, cur_prev,
                   cur_config, cur_result, lines>>

\* convert.rs:60, 75: `?` returns the failure and the builder is dropped
ConvertFail ==
    /\ pc = "convert"
    /\ hist.tag = "Constructable"
    /\ cur_idx < Len(formula)
    /\ IsFailure(ConvertPart(box, formula[cur_idx + 1], hist.dir, cur_config))
    /\ built' = ConvertPart(box, formula[cur_idx + 1], hist.dir, cur_config)
    /\ box' = NoBox
    /\ pc' = "failed"
    /\ cur_idx' = cur_idx + 1
    /\ UNCHANGED <<hist, formula, settings, cur_parent_next, cur_prev,
                   cur_config, cur_result, lines>>

\* convert.rs:69, 83
ConvertBuild ==
    /\ pc = "convert"
    /\ hist.tag = "Constructable"
    /\ cur_idx = Len(formula)
    /\ built' = (IF hist.dir = "Vertical" THEN VBox_build(box) ELSE HBox_build(box))
    /\ box' = NoBox
    /\ pc' = "converted"
    /\ UNCHANGED <<hist, formula, settings, cur_parent_next, cur_idx, cur_prev,
                   cur_config, cur_result, lines>>

\* engine.rs:114-123 on a symbol the provider has a glyph for
LookupSymbol ==
    /\ pc = "loop"
    /\ cur_idx < Len(formula)
    /\ HasGlyph(formula[cur_idx + 1].unicode)
    /\ IterSymbol

\* engine.rs:120 on a symbol the provider has no glyph for: glyph_metrics
\* returns a Glyph (its result is used as one on line 121) and layout returns
\* a Layout (line 26), so the failed lookup can only end the call by a panic
LookupPanic ==
    /\ pc = "loop"
    /\ cur_idx < Len(formula)
    /\ ~ HasGlyph(formula[cur_idx + 1].unicode)
    /\ pc' = "panicked"
    /\ cur_result' = NoNode
    /\ cur_idx' = cur_idx + 1
    /\ UNCHANGED <<bvars, formula, settings, cur_parent_next, cur_prev,
                   cur_config, lines>>

NextLookup ==
    \/ ConvertReplacement
    \/ ConvertInsert
    \/ ConvertFail
    \/ ConvertBuild
    \/ LookupSymbol
    \/ LookupPanic
    \/ LayoutFinalize

SpecLookup == InitLookup /\ [][NextLookup]_vars

\* the code whose glyph part or symbol i of the input asks for
CodeAt(i) ==
    IF "gid" \in DOMAIN formula[i] THEN formula[i].gid ELSE formula[i].unicode

\* the lookups made so far that failed
FailedLookups == { i \in 1 .. cur_idx : ~ HasGlyph(CodeAt(i)) }

Converting == pc \in { "convert", "converted", "failed" } /\ "tag" \in DOMAIN hist

\* C13, the conversion: as soon as the glyph of a part cannot be resolved, the
\* conversion of a variant glyph has ended with the failure of that part, the
\* first such part, and the box under construction is gone; a box is returned
\* only when every part was resolved.
C13_ConversionFailsAtFirstMissingPart ==
    Converting =>
        /\ FailedLookups # {} =>
              /\ pc = "failed"
              /\ built = MissingGlyph(CodeAt(cur_idx))
              /\ FailedLookups = { cur_idx }
              /\ box = NoBox
        /\ pc = "converted" => FailedLookups = {} /\ ~ IsFailure(built)

\* C13: a layout call or a variant-glyph conversion in which a glyph lookup
\* failed has ended with the failure of the first failed lookup as its result,
\* never with a Layout or a box.
C13_FailedLookupReturnsFailure ==
    FailedLookups # {} =>
        /\ pc = "failed"
        /\ IF Converting THEN built = MissingGlyph(CodeAt(cur_idx))
                         ELSE cur_result = MissingGlyph(CodeAt(cur_idx))

\* C13, witness: the layout of a formula stopped at a symbol without a glyph
\* after a symbol with a glyph was laid out.
C13_Witness ==
    /\ ~ Converting
    /\ cur_idx >= 2
    /\ FailedLookups = { cur_idx }
    /\ pc = "panicked"

\* C13, witness of the conversion: a conversion failed at its third part.
C13_ConversionWitness ==
    /\ Converting
    /\ pc = "failed"
    /\ cur_idx = 3
    /\ built = MissingGlyph(CodeAt(3))

(***************************************************************************)
(* Node kinds the loop of layout_recurse ignores, checked under SpecLayout. *)
(***************************************************************************)
IsIgnored(node) == node.kind \in IgnoredKinds

\* the sequence without the nodes layout_recurse ignores
RECURSIVE Supported(_)
Supported(nodes) ==
    IF nodes = <<>>
    THEN <<>>
    ELSE IF IsIgnored(Head(nodes))
         THEN Supported(Tail(nodes))
         ELSE << Head(nodes) >> \o Supported(Tail(nodes))

HasIgnored == \E i \in 1 .. Len(formula) : IsIgnored(formula[i])

\* C14: the layout of a sequence that contains an unsupported node completes
\* and is the layout of the sequence without that node: the node contributes
\* no layout node and no spacing, every other node is laid out as without it.
C14_IgnoredNodeContributesNothing ==
    (pc = "done" /\ HasIgnored) =>
        cur_result = layout_recurse(Supported(formula), settings, cur_parent_next)

\* C14, witness: a finished layout of a relation followed by an ignored node,
\* whose last layout node is the kern laid between the two.
C14_Witness ==
    /\ pc = "done"
    /\ Len(formula) = 2
    /\ atom_type(formula[1]) = "Relation"
    /\ IsIgnored(formula[2])
    /\ Len(cur_result.contents) = 2
    /\ cur_result.contents[2].kind = "Kern"
    /\ cur_result.contents[2].width > 0

(***************************************************************************)
(* Nesting depth, checked under SpecEngine: every group, radical, scripts  *)
(* node and fraction is one more level of recursion of the engine          *)
(* (engine.rs:80-85, 287-298, 501-503, 572).                               *)
(***************************************************************************)
\* the maxima of the nesting depth the property is checked for
NestingLimits == { 0, 1 }

RECURSIVE NestingDepth(_), SeqDepth(_)
NestingDepth(node) ==
    CASE node.kind \in { "Group", "Radical", "Color", "AtomChange" } ->
            1 + SeqDepth(node.inner)
      [] node.kind = "GenFraction" ->
            1 + max(SeqDepth(node.numerator), SeqDepth(node.denominator))
      [] node.kind = "Scripts" ->
            1 + max(NestingDepth(node.base),
                    max(NestingDepth(node.superscript), NestingDepth(node.subscript)))
      [] OTHER -> 0

SeqDepth(nodes) ==
    IF nodes = <<>>
    THEN 0
    ELSE max(NestingDepth(Head(nodes)), SeqDepth(Tail(nodes)))

\* C15: for a maximum nesting depth, the layout of a formula nested deeper than
\* the maximum ends with a failure result instead of a Layout.
C15_DeepNestingFails ==
    \A limit \in NestingLimits :
        (pc = "done" /\ SeqDepth(formula) > limit) => IsFailure(cur_result)

\* C15, witness: a formula of nesting depth 2 (a radical over scripts or over a
\* fraction) was laid out completely, down to its innermost content.
C15_Witness ==
    /\ pc = "done"
    /\ SeqDepth(formula) = 2
    /\ formula[1].kind = "Radical"
    /\ ~ IsFailure(cur_result)
    /\ Len(cur_result.contents) = 2
    /\ cur_result.contents[2].contents[4].width > 0

(***************************************************************************)
(* The scale factor of a style (convert.rs:91-108), checked under          *)
(* SpecEngine, whose calls run in each of the eight styles.                *)
(***************************************************************************)
FullSizeStyles == { "Display", "DisplayCramped", "Text", "TextCramped" }

\* the other style of the same name, cramped for uncramped and back
CrampedTwin(style) ==
    CASE style = "Display"             -> "DisplayCramped"
      [] style = "DisplayCramped"      -> "Display"
      [] style = "Text"                -> "TextCramped"
      [] style = "TextCramped"         -> "Text"
      [] style = "Script"              -> "ScriptCramped"
      [] style = "ScriptCramped"       -> "Script"
      [] style = "ScriptScript"        -> "ScriptScriptCramped"
      [] style = "ScriptScriptCramped" -> "ScriptScript"

\* C16: the scale factor of the style of a call is exactly 1.0 (100 percent) in
\* Display, DisplayCramped, Text and TextCramped, is the same for the style and
\* for its cramped or uncramped twin, and decreases strictly from Display to
\* Script to ScriptScript.
C16_ScaleFactorByLevel ==
    /\ settings \in FullSizeStyles => scale_factor(settings) = 100
    /\ scale_factor(settings) = scale_factor(CrampedTwin(settings))
    /\ scale_factor("Display") > scale_factor("Script")
    /\ scale_factor("Script") > scale_factor("ScriptScript")
    /\ settings \notin FullSizeStyles => scale_factor(settings) < scale_factor("Display")

\* C16, witness: a radical laid out in ScriptCramped style, its rule scaled by
\* the factor of Script, which is below 1.0.
C16_Witness ==
    /\ RadicalDone
    /\ settings = "ScriptCramped"
    /\ scale_factor(settings) = scale_factor("Script")
    /\ scale_factor(settings) < 100
    /\ cur_result.contents[2].contents[2].height
           = FontConst.RADICAL_RULE_THICKNESS * Subdiv * scale_factor("Script")

(***************************************************************************)
(* Cramping (config.cramped(), engine.rs:573), checked under SpecEngine in *)
(* each of the eight styles a call can run in.                             *)
(***************************************************************************)
\* C17: for the style s of a call, cramped(cramped(s)) = cramped(s), cramped(s)
\* is at the same level (Display, Text, Script or ScriptScript) as s, and it is
\* a cramped style.
C17_CrampedIdempotentSameLevel ==
    /\ cramped(cramped(settings)) = cramped(settings)
    /\ Level(cramped(settings)) = Level(settings)
    /\ is_cramped(cramped(settings))

\* C17, witness: a radical laid out in an uncramped style, whose content is
\* laid out in the cramped style of the same level.
C17_Witness ==
    /\ RadicalDone
    /\ settings = "Script"
    /\ cramped(settings) = "ScriptCramped"
    /\ cramped(cramped(settings)) = "ScriptCramped"
    /\ cur_result.contents[2].contents[4]
           = Layout_as_node(layout(formula[1].inner, "ScriptCramped"))

(***************************************************************************)
(* THE PARSER (parser/mod.rs).  The input is the sequence of tokens the    *)
(* token iterator yields; characters are named by strings ("Zhe" and "Ya"  *)
(* are Cyrillic letters, "GreekAlpha" .. "greek_omega" the ends of the     *)
(* two Greek ranges).                                                      *)
(***************************************************************************)
MaxTokens == 3

\* Option: Some(value) and None
Some(value) == [some |-> TRUE, value |-> value]
None == [some |-> FALSE]

\* textoken::TexToken
Char(c) == [token |-> "Char", c |-> c]
ControlSequence(name) == [token |-> "ControlSequence", name |-> name]

\* parser::error::ParseError (error.rs:14-17)
UnrecognizedSymbol(c) == [error |-> "UnrecognizedSymbol", c |-> c]
UnrecognizedControlSequence(name) ==
    [error |-> "UnrecognizedControlSequence", name |-> name]

Ok(nodes) == [ok |-> TRUE, nodes |-> nodes]
Err(e)    == [ok |-> FALSE, error |-> e]

\* mod.rs:150-162
codepoint_atom_type(codepoint) ==
    CASE codepoint \in { "a", "z", "A", "Z", "0", "9", "GreekAlpha", "GreekOmega",
                         "greek_alpha", "greek_omega" } -> Some("Alpha")
      [] codepoint \in { "*", "+", "-" }      -> Some("Binary")
      [] codepoint \in { "[", "(" }           -> Some("Open")
      [] codepoint \in { "]", ")", "?", "!" } -> Some("Close")
      [] codepoint \in { "=", "<", ">", ":" } -> Some("Relation")
      [] codepoint \in { ",", ";" }           -> Some("Punctuation")
      [] codepoint \in { "|" }                -> Some("Fence")
      [] codepoint \in { "/", "@", ".", "dquote" } -> Some("Alpha")
      [] OTHER -> None

\* control_sequence.rs:37-187, the variant only; Kerning carries its length in
\* 36ths of an em.  The names of no primitive command are looked up among the
\* symbol names (Symbol::from_name), of which the model has alpha.
PrimitiveControlSequence_from_name(name) ==
    CASE name \in { "frac", "tfrac", "dfrac", "binom", "tbinom", "dbinom" } ->
            Some([tag |-> "Fraction"])
      [] name = "substack" -> Some([tag |-> "SubStack"])
      [] name = "sqrt"     -> Some([tag |-> "Radical"])
      [] name \in { "mathbf", "mathit", "mathrm", "mathscr", "mathfrak", "mathbb",
                    "mathsf", "mathtt", "mathcal", "bf", "it", "rm", "sf", "tt",
                    "cal" } -> Some([tag |-> "StyleChange"])
      [] name \in { "bigl", "Bigl", "biggl", "Biggl", "bigr", "Bigr", "biggr",
                    "Biggr", "bigm", "Bigm", "biggm", "Biggm", "big", "Big",
                    "bigg", "Bigg" } -> Some([tag |-> "DelimiterSize"])
      [] name = "!"     -> Some([tag |-> "Kerning", unit |-> -6])
      [] name = ","     -> Some([tag |-> "Kerning", unit |-> 6])
      [] name = ":"     -> Some([tag |-> "Kerning", unit |-> 8])
      [] name = ";"     -> Some([tag |-> "Kerning", unit |-> 10])
      [] name = " "     -> Some([tag |-> "Kerning", unit |-> 9])
      [] name = "quad"  -> Some([tag |-> "Kerning", unit |-> 36])
      [] name = "qquad" -> Some([tag |-> "Kerning", unit |-> 72])
      [] name = "rule"  -> Some([tag |-> "Rule"])
      [] name \in { "textstyle", "displaystyle", "scriptstyle",
                    "scriptscriptstyle" } -> Some([tag |-> "Style"])
      [] name = "text" -> Some([tag |-> "Text"])
      [] name \in { "mathop", "mathrel", "mathord" } -> Some([tag |-> "AtomChange"])
      [] name = "color" -> Some([tag |-> "Color"])
      [] name \in { "blue", "red", "gray", "phantom" } -> Some([tag |-> "ColorLit"])
      [] name \in { "det", "gcd", "lim", "limsup", "liminf", "sup", "supp", "inf",
                    "max", "min", "Pr", "sin", "cos", "tan", "cot", "csc", "sec",
                    "arcsin", "arccos", "arctan", "sinh", "cosh", "tanh", "arg",
                    "deg", "dim", "exp", "hom", "Hom", "ker", "Ker", "ln", "log" } ->
            Some([tag |-> "TextOperator"])
      [] name = "begin" -> Some([tag |-> "BeginEnv"])
      [] name = "end"   -> Some([tag |-> "EndEnv"])
      [] name \in { "left", "middle", "right" } -> Some([tag |-> "Delimiter"])
      [] name \in { "limits", "nolimits" } -> Some([tag |-> "Limits"])
      [] name = "alpha" ->
            Some([tag |-> "Symbol", symbol |-> Symbol("greek_alpha", "Alpha")])
      [] OTHER -> None

\* the outcomes of one turn of the loop of parse_until_end_of_group
Parsed(results)  == [outcome |-> "next", results |-> results, error |-> None]
Failed(e)        == [outcome |-> "err", results |-> <<>>, error |-> e]
Unimplemented    == [outcome |-> "todo", results |-> <<>>, error |-> None]

\* mod.rs:92-120: a control sequence
ParseControl(results, name, command) ==
    IF command = None
    THEN Failed(UnrecognizedControlSequence(name))
    ELSE IF command.value.tag = "Kerning"
         THEN Parsed(Append(results, Kerning(command.value.unit)))
         ELSE IF command.value.tag = "Symbol"
              THEN Parsed(Append(results, command.value.symbol))
              ELSE Unimplemented

\* a slip: a character without an atom type is passed over like ^ and _
ParseToken_pass_over(results, tok) ==
    IF tok.token = "Char"
    THEN IF tok.c \in { "^", "_" } \/ codepoint_atom_type(tok.c) = None
         THEN Parsed(results)
         ELSE Parsed(Append(results, Symbol(tok.c, codepoint_atom_type(tok.c).value)))
    ELSE ParseControl(results, tok.name, PrimitiveControlSequence_from_name(tok.name))

\* mod.rs:79-121: one turn of `while let Some(token)` on the token tok
ParseToken(results, tok) ==
    IF tok.token = "Char"
    THEN IF tok.c \in { "^", "_" }
         THEN Parsed(results)
         ELSE IF codepoint_atom_type(tok.c) = None
              THEN Failed(UnrecognizedSymbol(tok.c))
              ELSE Parsed(Append(results, Symbol(tok.c, codepoint_atom_type(tok.c).value)))
    ELSE ParseControl(results, tok.name, PrimitiveControlSequence_from_name(tok.name))

Tokens ==
    { Char("a"), Char("+"), Char("^"), Char("Zhe"), Char("Ya"),
      ControlSequence("quad"), ControlSequence("alpha"), ControlSequence("frac"),
      ControlSequence("foo") }

\* Parser::new and the start of Parser::parse (mod.rs:57-66)
InitParse ==
    /\ BuildersIdle
    /\ formula \in SeqsUpTo(Tokens, MaxTokens)
    /\ settings = "Text"
    /\ cur_parent_next = "Transparent"
    /\ pc = "parse"
    /\ cur_idx = 0
    /\ cur_prev = "Transparent"
    /\ cur_config = "Text"
    /\ cur_result = <<>>
    /\ lines = <<>>

\* the token the loop is at is consumed with the outcome o
ParseTurn(o) ==
    /\ pc = "parse"
    /\ cur_idx < Len(formula)
    /\ ParseToken(cur_result, formula[cur_idx + 1]).outcome = o
    /\ cur_idx' = cur_idx + 1

\* mod.rs:83-121: a token that is passed over or gives a node
ParseNext ==
    /\ ParseTurn("next")
    /\ cur_result' = ParseToken(cur_result, formula[cur_idx + 1]).results
    /\ UNCHANGED <<bvars, formula, settings, cur_parent_next, pc, cur_prev,
                   cur_config, lines>>

\* mod.rs:88, 95-96 and 68: `?` returns the error from parse_until_end_of_group
\* and from parse; the nodes collected so far are dropped
ParseFail ==
    /\ ParseTurn("err")
    /\ built' = Err(ParseToken(cur_result, formula[cur_idx + 1]).error)
    /\ cur_result' = <<>>
    /\ pc' = "returned"
    /\ UNCHANGED <<box, hist, formula, settings, cur_parent_next, cur_prev,
                   cur_config, lines>>

\* mod.rs:100-118: todo!() panics
ParseTodo ==
    /\ ParseTurn("todo")
    /\ cur_result' = <<>>
    /\ pc' = "panicked"
    /\ UNCHANGED <<bvars, formula, settings, cur_parent_next, cur_prev,
                   cur_config, lines>>

\* mod.rs:124 and 68-71: the end of the input
ParseEof ==
    /\ pc = "parse"
    /\ cur_idx = Len(formula)
    /\ built' = Ok(cur_result)
    /\ pc' = "returned"
    /\ UNCHANGED <<box, hist, formula, settings, cur_parent_next, cur_idx,
                   cur_prev, cur_config, cur_result, lines>>

NextParse ==
    \/ ParseNext
    \/ ParseFail
    \/ ParseTodo
    \/ ParseEof

SpecParse == InitParse /\ [][NextParse]_vars

\* token i of the input is a character without an atom type
IsUnknownChar(i) ==
    /\ formula[i].token = "Char"
    /\ formula[i].c \in { "Zhe", "Ya" }

\* the tokens before token i are all parsed (each gives a node or is passed over)
ValidBefore(i) ==
    \A j \in 1 .. i - 1 :
        \/ formula[j] \in { Char("a"), Char("+"), Char("^") }
        \/ formula[j] \in { ControlSequence("quad"), ControlSequence("alpha") }

\* C19: once the parser has come to a character c without an atom type, after
\* any valid symbols before it, parse has returned Err(UnrecognizedSymbol(c))
\* and no node list.
C19_UnknownCharIsUnrecognizedSymbol ==
    \A i \in 1 .. cur_idx :
        (IsUnknownChar(i) /\ ValidBefore(i)) =>
            /\ pc = "returned"
            /\ cur_idx = i
            /\ built = Err(UnrecognizedSymbol(formula[i].c))
            /\ "nodes" \notin DOMAIN built

\* C19, witness: parse returned the error for a Cyrillic letter that came third,
\* after two valid symbols.
C19_Witness ==
    /\ pc = "returned"
    /\ cur_idx = 3
    /\ IsUnknownChar(3)
    /\ ValidBefore(3)
    /\ formula[1] = Char("a")
    /\ built = Err(UnrecognizedSymbol(formula[3].c))

(***************************************************************************)
(* The next atom of the last node of a nested sequence, checked under      *)
(* SpecLayout on the nested sequence x + (an Alpha, then a Binary whose    *)
(* previous atom does not settle its type): in a style of Display or Text  *)
(* size the laid-out content is x, a kern and + when + stays Binary and x  *)
(* and + alone when + is treated as Alpha.                                 *)
(***************************************************************************)
NestedKinds == { "Color", "Group", "AtomChange" }

\* the j-th smallest element of a set of numbers
Nth(S, j) == CHOOSE x \in S : Cardinality({ y \in S : y <= x }) = j

\* the nested constructs of the formula and the layout nodes made for them
NestedParsed == { i \in 1 .. Len(formula) : formula[i].kind \in NestedKinds }
NestedLaid ==
    { k \in 1 .. Len(cur_result.contents) :
        cur_result.contents[k].kind \in { "Color", "HorizontalBox" } }

\* the laid-out content of the j-th nested construct
NestedContent(j) ==
    IF cur_result.contents[Nth(NestedLaid, j)].kind = "Color"
    THEN cur_result.contents[Nth(NestedLaid, j)].inner
    ELSE cur_result.contents[Nth(NestedLaid, j)].contents

\* the style node i of the formula is laid out in
StyleAt(i) ==
    IF \E k \in 1 .. i - 1 : formula[k].kind = "Style"
    THEN formula[CHOOSE k \in 1 .. i - 1 :
                    /\ formula[k].kind = "Style"
                    /\ \A m \in k + 1 .. i - 1 : formula[m].kind # "Style"].style
    ELSE settings

\* the j-th nested construct holds x + and is laid out at Display or Text size
HoldsTrailingBinary(j) ==
    /\ formula[Nth(NestedParsed, j)].inner
           = << Symbol("x", "Alpha"), Symbol("plus", "Binary") >>
    /\ Level(StyleAt(Nth(NestedParsed, j))) >= 2

\* the trailing + of the j-th nested construct was treated as Alpha
TrailingAsAlpha(j) == Len(NestedContent(j)) = 2

\* C20, as stated: the next atom of the last node of the content of a Group, a
\* Color region or an AtomChange is the atom type of the node after the
\* construct in the parent sequence (what follows the parent sequence when
\* the construct is its last node), so a trailing + is treated as Alpha
\* exactly when that atom is Relation, Close or Punctuation.
C20_NestedLastSeesParentContext ==
    pc = "done" =>
        \A j \in 1 .. Cardinality(NestedParsed) :
            HoldsTrailingBinary(j) =>
                (TrailingAsAlpha(j) <=>
                    NextOf(Nth(NestedParsed, j)) \in { "Relation", "Close", "Punctuation" })

\* C20, amended: only the content of a Color region sees the parent's context;
\* the content of a Group or an AtomChange is laid out through layout, and the
\* next atom of its last node is Transparent.
C20_OnlyColorSeesParentContext ==
    pc = "done" =>
        \A j \in 1 .. Cardinality(NestedParsed) :
            HoldsTrailingBinary(j) =>
                (TrailingAsAlpha(j) <=>
                    /\ formula[Nth(NestedParsed, j)].kind = "Color"
                    /\ NextOf(Nth(NestedParsed, j))
                           \in { "Relation", "Close", "Punctuation" })

\* C20, witness: a Group that holds x + was laid out in Display style in front
\* of the Relation =, and its + stayed Binary: the content is x, a kern and +.
C20_Witness ==
    /\ pc = "done"
    /\ settings = "Display"
    /\ Len(formula) = 2
    /\ formula[1].kind = "Group"
    /\ formula[2] = Symbol("eq", "Relation")
    /\ HoldsTrailingBinary(1)
    /\ Len(NestedContent(1)) = 3
    /\ NestedContent(1)[2].kind = "Kern"

(***************************************************************************)
(* Style nodes, checked under SpecLayout.  The style a symbol was laid out *)
(* in shows in the size of its glyph.                                      *)
(***************************************************************************)
IsPlainSymbol(node) == node.kind = "Symbol" /\ ~ IsOperator(node.atom_type)

GlyphSize(style) == scaled(FontConst.UNITS_PER_EM, style)

\* the loop is at a Style node
AtStyleNode ==
    /\ pc = "loop"
    /\ cur_idx < Len(formula)
    /\ formula[cur_idx + 1].kind = "Style"

\* the style of the loop is the one of the last Style node among the siblings
\* passed so far, the style of the call when there is none; the first symbol
\* of a sequence is laid out in the style of the call and the last one in the
\* style of the last Style sibling before it, whatever Style nodes nested
\* constructs hold
StyleFollowsSiblings ==
    /\ pc \in { "loop", "done" } => cur_config = StyleAt(cur_idx + 1)
    /\ (pc = "done" /\ formula # <<>> /\ IsPlainSymbol(formula[1])) =>
           cur_result.contents[1].glyph.size = GlyphSize(settings)
    /\ (pc = "done" /\ formula # <<>> /\ IsPlainSymbol(formula[Len(formula)])) =>
           cur_result.contents[Len(cur_result.contents)].glyph.size
               = GlyphSize(StyleAt(Len(formula)))

\* C21: a Style node sets the style of every later sibling of its sequence up
\* to the next Style node and adds no layout node; earlier siblings keep their
\* style, and a Style node of a nested sequence leaves the style of the nodes
\* after the enclosing construct alone.
C21_StyleChangesLaterSiblingsOnly ==
    /\ [] StyleFollowsSiblings
    /\ [][ AtStyleNode =>
              /\ cur_result' = cur_result
              /\ cur_config' = formula[cur_idx + 1].style ]_vars

\* C21, witness: in Display style, a symbol, a Group that holds a Style node,
\* and a last symbol that is laid out at full size.
C21_NestedStyleWitness ==
    /\ pc = "done"
    /\ settings = "Display"
    /\ Len(formula) = 2
    /\ formula[1] = Group(<< StyleNode("Script"), Symbol("x", "Alpha") >>)
    /\ IsPlainSymbol(formula[2])
    /\ cur_result.contents[1].contents[1].glyph.size = GlyphSize("Script")
    /\ cur_result.contents[Len(cur_result.contents)].glyph.size = GlyphSize("Display")

\* C21, witness: in Display style, a Style node for Script in front of a symbol:
\* the layout holds the symbol alone, at Script size.
C21_Witness ==
    /\ pc = "done"
    /\ settings = "Display"
    /\ formula = << StyleNode("Script"), Symbol("x", "Alpha") >>
    /\ Len(cur_result.contents) = 1
    /\ cur_result.contents[1].glyph.size = GlyphSize("Script")
    /\ GlyphSize("Script") < GlyphSize("Display")

(***************************************************************************)
(* The child order of a constructed variant glyph, checked under           *)
(* SpecLookup on the conversions that ended with a box.                    *)
(***************************************************************************)
Constructed ==
    /\ pc = "converted"
    /\ "tag" \in DOMAIN hist
    /\ hist.tag = "Constructable"

\* the positions of the glyphs among the children of the built box
GlyphChildren ==
    { k \in 1 .. Len(built.contents) : built.contents[k].kind = "Glyph" }

\* the child of part j: the glyphs are in the order of the parts in a
\* horizontal box, in the reverse order in a vertical box
ChildOfPart(j) ==
    IF hist.dir = "Vertical"
    THEN Nth(GlyphChildren, Len(formula) + 1 - j)
    ELSE Nth(GlyphChildren, j)

\* the length of a kern along the direction of the box
KernLength(node) == IF hist.dir = "Vertical" THEN node.height ELSE node.width

\* first and last of two positions
Lower(a, b) == IF a < b THEN a ELSE b
Upper(a, b) == IF a < b THEN b ELSE a

\* C22: the box built for a constructable variant glyph holds one glyph per
\* part, p1..pn from left to right in a horizontal box and pn..p1 from the top
\* in a vertical box, and between the glyphs of two consecutive parts exactly
\* one child, a kern of minus the scaled overlap the later part declares, when
\* that overlap is not 0, and nothing when it is 0.
C22_PartKernsBetweenPartGlyphs ==
    Constructed =>
        /\ Cardinality(GlyphChildren) = Len(formula)
        /\ \A j \in 1 .. Len(formula) :
              built.contents[ChildOfPart(j)].glyph.gid = formula[j].gid
        /\ \A j \in 2 .. Len(formula) :
              IF formula[j].overlap = 0
              THEN Upper(ChildOfPart(j), ChildOfPart(j - 1))
                       = Lower(ChildOfPart(j), ChildOfPart(j - 1)) + 1
              ELSE /\ Upper(ChildOfPart(j), ChildOfPart(j - 1))
                          = Lower(ChildOfPart(j), ChildOfPart(j - 1)) + 2
                   /\ built.contents[Lower(ChildOfPart(j), ChildOfPart(j - 1)) + 1].kind
                          = "Kern"
                   /\ KernLength(
                          built.contents[Lower(ChildOfPart(j), ChildOfPart(j - 1)) + 1])
                          = - scaled(formula[j].overlap, cur_config)

\* C22, the horizontal assembly alone: the property holds of every box built
\* in the horizontal direction.
C22_HorizontalPartKerns ==
    (Constructed /\ hist.dir = "Horizontal") => C22_PartKernsBetweenPartGlyphs

\* C22, witness: a vertical box built from a bottom part and two extenders that
\* overlap: three glyphs, then the two kerns.
C22_Witness ==
    /\ Constructed
    /\ hist.dir = "Vertical"
    /\ Len(formula) = 3
    /\ formula[1].overlap = 0
    /\ formula[2].overlap # 0
    /\ formula[3].overlap # 0
    /\ Len(built.contents) = 5
    /\ built.contents[1].kind = "Glyph"
    /\ built.contents[2].kind = "Glyph"
    /\ built.contents[3].kind = "Glyph"
    /\ built.contents[3].glyph.gid = formula[1].gid
    /\ built.contents[4].kind = "Kern"
    /\ built.contents[5].kind = "Kern"

(***************************************************************************)
(* The delimiters of a large delimited group.                              *)
(***************************************************************************)
DelimitedDone ==
    /\ pc = "done"
    /\ formula[1].kind = "Delimited"

\* the laid-out inner group, between the two delimiters
DelimitedInner == cur_result.contents[2]

\* the delimiters of the group that are not the null delimiter, as laid out
LaidDelimiters ==
    { cur_result.contents[k] :
        k \in { j \in { 1, 3 } :
                  (IF j = 1 THEN formula[1].left ELSE formula[1].right).unicode
                      # NullDelimiter } }

\* the node covers the clearance the inner group asks for (in thousandths)
CoversClearance(node) ==
    1000 * to_font(node.height - node.depth) >= DelimiterClearance(DelimitedInner)

\* C23: when the inner content of a delimited group exceeds the size
\* threshold, each delimiter that is not the null delimiter is laid out with
\* an extent (height - depth) of at least the clearance
\* max(factor * 2 * max(height - axis, axis - depth), height - depth - shortfall)
\* of the laid-out inner content, in every style.
C23_DelimitersCoverClearance ==
    (DelimitedDone /\ DelimitedIsLarge(DelimitedInner)) =>
        \A node \in LaidDelimiters : CoversClearance(node)

\* C23, in the styles of scale factor 1: the delimiters cover the clearance.
C23_FullSizeDelimitersCoverClearance ==
    (DelimitedDone /\ DelimitedIsLarge(DelimitedInner)
        /\ scale_factor(cur_config) = 100) =>
        \A node \in LaidDelimiters : CoversClearance(node)

\* C23, witness: a large group in a script style whose left parenthesis is
\* shorter than the clearance.
C23_Witness ==
    /\ DelimitedDone
    /\ DelimitedIsLarge(DelimitedInner)
    /\ cur_config = "Script"
    /\ formula[1].left.unicode = "lparen"
    /\ formula[1].inner = << Symbol("sum", "Operator(true)") >>
    /\ ~ CoversClearance(cur_result.contents[1])

\* C23, witness: a large group in a full-size style whose parentheses are
\* constructed from parts.
C23_ConstructedWitness ==
    /\ DelimitedDone
    /\ DelimitedIsLarge(DelimitedInner)
    /\ cur_config = "Display"
    /\ formula[1].left.unicode = "lparen"
    /\ formula[1].right.unicode = "rparen"
    /\ Len(cur_result.contents[1].contents[1].contents) > 1
    /\ CoversClearance(cur_result.contents[3])

(***************************************************************************)
(* The horizontal kern of a subscript on a base without limits.            *)
(***************************************************************************)
\* a single symbol without limits with a subscript that is a symbol
SubscriptedDone ==
    /\ pc = "done"
    /\ formula[1].kind = "Scripts"
    /\ formula[1].base.kind = "Symbol"
    /\ formula[1].base.atom_type # "Operator(true)"
    /\ formula[1].subscript.kind = "Symbol"

\* the subscript, the last child of the script box
SubscriptBoxOf(result) ==
    result.contents[2].contents[Len(result.contents[2].contents)]

\* the kern in front of the subscript, 0 when there is none
SubscriptKern(result) ==
    IF SubscriptBoxOf(result).contents[1].kind = "Kern"
    THEN SubscriptBoxOf(result).contents[1].width
    ELSE 0

\* the italic correction of the laid-out base
BaseItalics(result) == Node_is_symbol(result.contents[1]).italics

\* the same scripts without the superscript
WithoutSuperscript(scripts) == [scripts EXCEPT !.superscript = NoNode]

\* C24: for a single-symbol base without limits the kern of the subscript is
\* the same with and without a superscript, and for an Operator symbol
\* without limits it is minus the italic correction of the base in both
\* cases (the font has no kerning entry for the operator glyphs).
C24_SubscriptKernIgnoresSuperscript ==
    SubscriptedDone =>
        /\ SubscriptKern(cur_result)
              = SubscriptKern(add_scripts(Layout_new,
                                          WithoutSuperscript(formula[1]),
                                          cur_config))
        /\ IsOperator(formula[1].base.atom_type) =>
              SubscriptKern(cur_result) = - BaseItalics(cur_result)

\* C24, with a superscript: the subscript of an Operator symbol without
\* limits is shifted by minus the italic correction.
C24_OperatorSubscriptShiftedWithSuperscript ==
    (SubscriptedDone /\ formula[1].superscript # NoNode
        /\ IsOperator(formula[1].base.atom_type)) =>
        SubscriptKern(cur_result) = - BaseItalics(cur_result)

\* C24, witness: an integral sign with a subscript and no superscript, laid
\* out with no kern in front of the subscript.
C24_Witness ==
    /\ SubscriptedDone
    /\ formula[1].base.unicode = "int"
    /\ formula[1].superscript = NoNode
    /\ BaseItalics(cur_result) > 0
    /\ SubscriptKern(cur_result) = 0

\* C24, witness: the same integral sign with a superscript, the subscript
\* shifted.
C24_ShiftedWitness ==
    /\ SubscriptedDone
    /\ formula[1].base.unicode = "int"
    /\ formula[1].superscript = Symbol("x", "Alpha")
    /\ BaseItalics(cur_result) > 0
    /\ SubscriptKern(cur_result) = - BaseItalics(cur_result)

(***************************************************************************)
(* The box of an operator with limits.                                     *)
(***************************************************************************)
LimitsDone ==
    /\ pc = "done"
    /\ formula[1].kind = "Scripts"
    /\ formula[1].base # NoNode
    /\ atom_type(formula[1].base) = "Operator(true)"

\* the vertical box << superscript row, kern, base, kern, subscript row >>
LimitsBox == cur_result.contents[1]

\* C25: for scripts on an operator with limits, with each script present or
\* absent, the height of the vertical box is the height of the superscript
\* row plus the superscript kern plus the height of the base: the baseline of
\* the base is the baseline of the box.
C25_LimitsKeepBaseBaseline ==
    LimitsDone =>
        /\ Len(cur_result.contents) = 1
        /\ LimitsBox.kind = "VerticalBox"
        /\ Len(LimitsBox.contents) = 5
        /\ LimitsBox.contents[3].contents
              = layout(<< formula[1].base >>, cur_config).contents
        /\ LimitsBox.height
              = LimitsBox.contents[1].height + LimitsBox.contents[2].height
                  + LimitsBox.contents[3].height

\* C25, witness: limits above and below the operator, the subscript with a
\* height of its own.
C25_Witness ==
    /\ LimitsDone
    /\ formula[1].superscript = Symbol("f", "Alpha")
    /\ formula[1].subscript = Symbol("x", "Alpha")
    /\ LimitsBox.contents[5].height > 0
    /\ LimitsBox.contents[4].height > 0
    /\ LimitsBox.height
          = LimitsBox.contents[1].height + LimitsBox.contents[2].height
              + LimitsBox.contents[3].height

\* C25, witness: the operator alone, both scripts absent.
C25_NoScriptsWitness ==
    /\ LimitsDone
    /\ formula[1].superscript = NoNode
    /\ formula[1].subscript = NoNode
    /\ LimitsBox.height
          = LimitsBox.contents[2].height + LimitsBox.contents[3].height

(***************************************************************************)
(* The large operator, as the base of scripts in each of the styles.       *)
(***************************************************************************)
OperatorBaseDone ==
    /\ pc = "done"
    /\ formula[1].kind = "Scripts"
    /\ formula[1].base.kind = "Symbol"
    /\ IsOperator(formula[1].base.atom_type)

\* the node add_symbol added for the base: the only node of the base's layout
OperatorNode ==
    IF formula[1].base.atom_type = "Operator(true)"
    THEN LimitsBox.contents[3].contents[1]
    ELSE cur_result.contents[1].contents[1]

\* C26: an Operator symbol laid out in Display or DisplayCramped style is a
\* vertical box around the operator's glyph whose midpoint (height + depth) / 2
\* is the scaled axis height; in Text and smaller styles it is the plain glyph
\* of the symbol, with no box and no shift.
C26_DisplayOperatorCentredOnAxis ==
    OperatorBaseDone =>
        IF cur_config \in { "Display", "DisplayCramped" }
        THEN /\ OperatorNode.kind = "VerticalBox"
             /\ Len(OperatorNode.contents) = 1
             /\ OperatorNode.contents[1].kind = "Glyph"
             /\ OperatorNode.height + OperatorNode.depth
                   = 2 * scaled(FontConst.AXIS_HEIGHT, cur_config)
        ELSE GlyphScaledOnce(OperatorNode, formula[1].base.unicode, cur_config)

\* C26, witness: a DisplayCramped integral whose glyph is not centred on the
\* axis by itself, shifted by the box.
C26_Witness ==
    /\ OperatorBaseDone
    /\ cur_config = "DisplayCramped"
    /\ formula[1].base.unicode = "int"
    /\ OperatorNode.kind = "VerticalBox"
    /\ OperatorNode.offset # 0
    /\ OperatorNode.height + OperatorNode.depth
          = 2 * scaled(FontConst.AXIS_HEIGHT, cur_config)

\* C26, witness: a Text operator, the plain glyph.
C26_TextWitness ==
    /\ OperatorBaseDone
    /\ cur_config = "Text"
    /\ formula[1].base.unicode = "sum"
    /\ OperatorNode.kind = "Glyph"

(***************************************************************************)
(* The vertical positions in the fraction box << numerator, kern, bar,     *)
(* kern, denominator >>, measured upwards from the baseline of the box:    *)
(* the children are stacked from the top, box.height, each one its height  *)
(* lower.                                                                  *)
(***************************************************************************)
\* the baseline of the numerator, the bottom of the first child
NumBaseline(b) == b.height - b.contents[1].height

\* the top and the bottom of the bar, the third child
BarTop(b) == NumBaseline(b) - b.contents[2].height
BarBottom(b) == BarTop(b) - b.contents[3].height

\* the numerator shift-up of the style, display value in Display styles
NumShiftUp(style) ==
    (IF style \in { "Display", "DisplayCramped" }
     THEN FontConst.FRACTION_NUMERATOR_DISPLAY_STYLE_SHIFT_UP
     ELSE FontConst.FRACTION_NUMERATOR_SHIFT_UP) * Subdiv * scale_factor(style)

\* C27: in the box of every fraction the middle of the bar is exactly the
\* scaled axis height above the baseline of the box and the baseline of the
\* numerator at least the numerator shift-up of the style above it, for
\* every numerator, denominator, bar thickness (zero included) and style.
C27_BarOnAxisNumeratorShiftedUp ==
    FracDone =>
        /\ FracBoxOf(cur_result).contents[3].kind = "Rule"
        /\ BarTop(FracBoxOf(cur_result)) + BarBottom(FracBoxOf(cur_result))
              = 2 * (FontConst.AXIS_HEIGHT * Subdiv * scale_factor(settings))
        /\ NumBaseline(FracBoxOf(cur_result)) >= NumShiftUp(settings)

\* C27, witness: a fraction with a bar of explicit thickness in a script
\* style, the bar around the axis.
C27_Witness ==
    /\ FracDone
    /\ settings = "ScriptCramped"
    /\ formula[1].bar_thickness = BarUnit(100)
    /\ BarTop(FracBoxOf(cur_result)) > BarBottom(FracBoxOf(cur_result))
    /\ BarTop(FracBoxOf(cur_result)) + BarBottom(FracBoxOf(cur_result))
          = 2 * (FontConst.AXIS_HEIGHT * Subdiv * 70)

\* C27, witness: a fraction without a bar whose numerator is pushed above
\* its shift-up by the gap minimum.
C27_NoBarWitness ==
    /\ FracDone
    /\ formula[1].bar_thickness = BarNone
    /\ BarTop(FracBoxOf(cur_result)) = BarBottom(FracBoxOf(cur_result))
    /\ NumBaseline(FracBoxOf(cur_result)) > NumShiftUp(settings)

(***************************************************************************)
(* The baselines of the scripts in the script box of a base without        *)
(* limits, measured upwards from the baseline of the box, which is the     *)
(* baseline of the base.                                                   *)
(***************************************************************************)
ScriptsDone ==
    /\ pc = "done"
    /\ formula[1].kind = "Scripts"
    /\ ~ (formula[1].base # NoNode /\ atom_type(formula[1].base) = "Operator(true)")

\* a script that is given and laid out with content
IsLaidScript(script) == script # NoNode /\ script.kind # "PlainText"

\* the layouts add_scripts starts from
LaidBase ==
    IF formula[1].base # NoNode
    THEN layout(<< formula[1].base >>, cur_config) ELSE Layout_new
LaidSup ==
    IF formula[1].superscript # NoNode
    THEN layout(<< formula[1].superscript >>, superscript_variant(cur_config))
    ELSE Layout_new
LaidSub ==
    IF formula[1].subscript # NoNode
    THEN layout(<< formula[1].subscript >>, subscript_variant(cur_config))
    ELSE Layout_new

\* adjust_up and adjust_down as they are after the gap is enforced
FinalShifts == ScriptShifts(formula[1], LaidBase, LaidSup, LaidSub, cur_config)

ScriptBoxOf(result) == result.contents[2]

\* the baseline of the superscript, the bottom of the first child
SupBaseline(b) == b.height - b.contents[1].height

\* the baseline of the subscript, the bottom of the last child
SubBaseline(b) == b.height - SumHeight(b.contents)

\* C28: in the script box of a base without limits the baseline of the
\* superscript is exactly adjust_up above the baseline of the base when a
\* superscript is present, and the baseline of the subscript exactly
\* adjust_down below it when a subscript is present, with the values the
\* shifts have after the gap is enforced: for a superscript alone, a
\* subscript alone and both.
C28_ScriptBaselinesAtShifts ==
    ScriptsDone =>
        /\ IsLaidScript(formula[1].superscript) =>
              /\ ScriptBoxOf(cur_result).contents[1].contents
                    = Layout_kerned(LaidSup, FinalShifts.sup_kern).contents
              /\ SupBaseline(ScriptBoxOf(cur_result)) = FinalShifts.adjust_up
        /\ IsLaidScript(formula[1].subscript) =>
              /\ ScriptBoxOf(cur_result).contents[
                     Len(ScriptBoxOf(cur_result).contents)].contents
                    = Layout_kerned(LaidSub, FinalShifts.sub_kern).contents
              /\ SubBaseline(ScriptBoxOf(cur_result)) = - FinalShifts.adjust_down

\* C28, witness: both scripts on a base, moved apart by the gap rule.
C28_Witness ==
    /\ ScriptsDone
    /\ IsLaidScript(formula[1].superscript)
    /\ IsLaidScript(formula[1].subscript)
    /\ ScriptGap(ScriptBoxOf(cur_result))
          = scaled(FontConst.SUB_SUPERSCRIPT_GAP_MIN, cur_config)
    /\ FinalShifts.adjust_up
          > scaled(FontConst.SUPERSCRIPT_SHIFT_UP, cur_config)
    /\ SupBaseline(ScriptBoxOf(cur_result)) = FinalShifts.adjust_up
    /\ SubBaseline(ScriptBoxOf(cur_result)) = - FinalShifts.adjust_down

\* C28, witness: a superscript alone.
C28_SupOnlyWitness ==
    /\ ScriptsDone
    /\ IsLaidScript(formula[1].superscript)
    /\ formula[1].subscript = NoNode
    /\ SupBaseline(ScriptBoxOf(cur_result)) = FinalShifts.adjust_up
    /\ FinalShifts.adjust_up > 0

\* C28, witness: a subscript alone.
C28_SubOnlyWitness ==
    /\ ScriptsDone
    /\ formula[1].superscript = NoNode
    /\ IsLaidScript(formula[1].subscript)
    /\ SubBaseline(ScriptBoxOf(cur_result)) = - FinalShifts.adjust_down
    /\ FinalShifts.adjust_down > 0

(***************************************************************************)
(* Color nodes and vertical boxes in the box tree.                         *)
(***************************************************************************)
\* no vertical box of the tree under node has a Color node among its children
RECURSIVE NoColorInVerticalBox(_)
NoColorInVerticalBox(node) ==
    CASE node.kind = "VerticalBox" ->
            \A k \in 1 .. Len(node.contents) :
                /\ node.contents[k].kind # "Color"
                /\ NoColorInVerticalBox(node.contents[k])
      [] node.kind = "HorizontalBox" ->
            \A k \in 1 .. Len(node.contents) : NoColorInVerticalBox(node.contents[k])
      [] node.kind = "Color" ->
            \A k \in 1 .. Len(node.inner) : NoColorInVerticalBox(node.inner[k])
      [] OTHER -> TRUE

\* the tree under node has a Color node in a horizontal box that is a child
\* of a vertical box
RECURSIVE ColorUnderVerticalBox(_)
ColorUnderVerticalBox(node) ==
    CASE node.kind = "VerticalBox" ->
            \E k \in 1 .. Len(node.contents) :
                \/ /\ node.contents[k].kind = "HorizontalBox"
                   /\ \E j \in 1 .. Len(node.contents[k].contents) :
                         node.contents[k].contents[j].kind = "Color"
                \/ ColorUnderVerticalBox(node.contents[k])
      [] node.kind = "HorizontalBox" ->
            \E k \in 1 .. Len(node.contents) : ColorUnderVerticalBox(node.contents[k])
      [] node.kind = "Color" ->
            \E k \in 1 .. Len(node.inner) : ColorUnderVerticalBox(node.inner[k])
      [] OTHER -> FALSE

C29_RadicalWitness ==
    /\ pc = "done"
    /\ formula[1].kind = "Radical"
    /\ ColorUnderVerticalBox(Layout_as_node(cur_result))

\* C29, witness: limits on a coloured operator.
C29_LimitsWitness ==
    /\ LimitsDone
    /\ formula[1].base.kind = "Color"
    /\ ColorUnderVerticalBox(Layout_as_node(cur_result))

(***************************************************************************)
(* layout_recurse on runs of Binary symbols: the loop of SpecLayout on     *)
(* sequences made of a node or nothing, a run of Binary symbols and a      *)
(* closing symbol or nothing.                                              *)
(***************************************************************************)
MaxRun == 5

RECURSIVE BinaryRun(_)
BinaryRun(n) ==
    IF n = 0 THEN <<>> ELSE Append(BinaryRun(n - 1), Symbol("plus", "Binary"))

RunPrefixes ==
    { <<>>, << Kerning(100) >>, << StyleNode("Script") >>, << PlainText >>,
      << Symbol("x", "Alpha") >>, << Symbol("plus", "Binary"), Kerning(100) >>,
      << Group(<< Symbol("x", "Alpha"), Symbol("plus", "Binary") >>) >> }

RunSuffixes ==
    { <<>>, << Symbol("x", "Alpha") >>, << Symbol("eq", "Relation") >> }

BinaryRuns ==
    { p \o BinaryRun(n) \o q : p \in RunPrefixes, n \in 0 .. MaxRun, q \in RunSuffixes }

InitRuns ==
    /\ BuildersIdle
    /\ formula \in BinaryRuns
    /\ settings \in EntryStyles
    /\ cur_parent_next \in ParentNexts
    /\ pc = "loop"
    /\ cur_idx = 0
    /\ cur_prev = "Transparent"
    /\ cur_config = settings
    /\ cur_result = Layout_new
    /\ lines = <<>>

SpecRuns == InitRuns /\ [][NextLayout]_vars

\* the node is a Binary symbol
IsBinarySymbol(node) == node.kind = "Symbol" /\ node.atom_type = "Binary"

\* the number of Binary symbols the sequence starts with
LeadingRun ==
    Cardinality({ i \in 1 .. Len(formula) :
                    \A j \in 1 .. i : IsBinarySymbol(formula[j]) })

\* the sequence starts with a run of Binary symbols that an Alpha symbol
\* follows
RunBeforeAlpha ==
    /\ LeadingRun >= 1
    /\ LeadingRun < Len(formula)
    /\ formula[LeadingRun + 1].kind = "Symbol"
    /\ formula[LeadingRun + 1].atom_type = "Alpha"

\* C30: in a run of Binary symbols at the start of a sequence that an Alpha
\* symbol follows, the first, third and fifth are treated as Alpha and the
\* second and fourth stay Binary; and a Binary symbol directly after a
\* Kerning or a Style node is treated as Alpha.
C30_BinaryRunAlternates ==
    /\ RunBeforeAlpha =>
          \A i \in 1 .. Len(lines) :
              i <= LeadingRun =>
                  TreatedAs(i) = (IF i % 2 = 1 THEN "Alpha" ELSE "Binary")
    /\ \A i \in 2 .. Len(lines) :
          (IsBinarySymbol(formula[i]) /\ formula[i - 1].kind \in { "Kerning", "Style" })
              => TreatedAs(i) = "Alpha"

\* C30, witness: a run of five Binary symbols before an Alpha symbol, all
\* six laid out, alternating.
C30_Witness ==
    /\ pc = "done"
    /\ RunBeforeAlpha
    /\ LeadingRun = 5
    /\ Len(lines) = 6
    /\ TreatedAs(1) = "Alpha"
    /\ TreatedAs(2) = "Binary"
    /\ TreatedAs(3) = "Alpha"
    /\ TreatedAs(4) = "Binary"
    /\ TreatedAs(5) = "Alpha"

\* C30, witness: a Binary symbol after a Kerning node that follows a Binary
\* symbol, treated as Alpha before an Alpha symbol.
C30_KerningWitness ==
    /\ pc = "done"
    /\ Len(formula) = 4
    /\ IsBinarySymbol(formula[1])
    /\ formula[2].kind = "Kerning"
    /\ IsBinarySymbol(formula[3])
    /\ formula[4] = Symbol("x", "Alpha")
    /\ TreatedAs(3) = "Alpha"

====
